---- MODULE Spec2Model ----
(***************************************************************************)
(* Model of the market-data adapter of the repository                      *)
(* (backend/src/app/services/providers/massive.py): the TTL caches, the    *)
(* rate limiter, the retry loop of _fetch_json and the provider            *)
(* operations built on them, run by concurrent asyncio callers.            *)
(*                                                                         *)
(* Time is in milliseconds.  The code reads time.monotonic() only to       *)
(* compare it with a stored instant, so the state holds the differences:   *)
(* expires_in is expires_at - time.monotonic(), since_last_call is         *)
(* time.monotonic() - _last_call, wake_in is what is left of a sleep.      *)
(* An advance of the clock by d moves each of them by d.  A difference is  *)
(* kept only as far as the code can tell it apart: an entry expired for 1  *)
(* ms is as expired as any, an elapsed time of min_interval as long as any.*)
(*                                                                         *)
(* A run of statements between two suspension points of a coroutine takes  *)
(* no time and is one action (asyncio runs it without interleaving).  An   *)
(* uncontended "async with lock" does not suspend: TTLCache.get/set never  *)
(* await inside their lock, so they are atomic and are operators.          *)
(* RateLimiter.wait sleeps inside its lock, so that lock is state.         *)
(***************************************************************************)
EXTENDS Integers, Sequences, FiniteSets, TLC

\* ---------------------------------------------------------------- constants
\* massive.py:15-20, in milliseconds
DEFAULT_RATE_LIMIT_INTERVAL == 250
DEFAULT_MAX_RETRIES == 3
QUOTE_TTL_SECONDS == 30000
FUNDAMENTALS_TTL_SECONDS == 86400000
UNIVERSE_TTL_SECONDS == 3600000
\* asyncio.sleep(0.2 * attempt), massive.py:274 and 283
BACKOFF_STEP == 200
\* response.headers.get("Retry-After", "0.5"), massive.py:278
DEFAULT_RETRY_AFTER == 500

\* ------------------------------------------------------------------- bounds
MaxCalls == 1      \* provider operations started in a behaviour of Spec
MaxLimiterCalls == 2  \* the same, in a behaviour of SpecLimiter
MaxQuoteCalls == 3 \* the same, in a behaviour of SpecQuote
MaxJumps == 2      \* advances of the clock other than to a wake-up time
MaxPages == 2      \* pages the upstream serves to one list_tickers call
\* history: the requests of one operation are counted up to this, the most
\* that pages with results can take
MaxDispatches == MaxPages * DEFAULT_MAX_RETRIES
MaxCloses == 2     \* calls of aclose in one behaviour

Callers == {"c1", "c2"}
\* values of rate_limit_interval the adapter is constructed with (main.py:18)
Intervals == {DEFAULT_RATE_LIMIT_INTERVAL, 1000}
\* time.monotonic() when the adapter is constructed
InitialTimes == {5000}

\* ------------------------------------------------------------------ strings
\* A Python str is a sequence of one-character strings.
Chars == {"a", "A", "b", "B", " "}

UpperChar(ch) ==
    CASE ch = "a" -> "A"
      [] ch = "b" -> "B"
      [] OTHER -> ch

\* str.upper()
Upper(s) == [i \in DOMAIN s |-> UpperChar(s[i])]

RECURSIVE LStrip(_)
LStrip(s) == IF s # <<>> /\ Head(s) = " " THEN LStrip(Tail(s)) ELSE s

RECURSIVE RStrip(_)
RStrip(s) ==
    IF s # <<>> /\ s[Len(s)] = " " THEN RStrip(SubSeq(s, 1, Len(s) - 1)) ELSE s

\* str.strip()
Strip(s) == LStrip(RStrip(s))

Max(a, b) == IF a >= b THEN a ELSE b
Min(a, b) == IF a <= b THEN a ELSE b

\* ----------------------------------------------------------------- TTLCache
\* self._store: a dict, here the set of its items [key, expires_in, value]
\* with expires_in = expires_at - time.monotonic().

\* TTLCache.get that forgets the expiry check
CacheGetValueNoExpiry(store, key) ==
    {e.value : e \in {x \in store : x.key = key}}

\* TTLCache.get: the value returned ({} is None, {v} is v)
CacheGetValue(store, key) ==
    {e.value : e \in {x \in store : x.key = key /\ ~(x.expires_in < 0)}}

\* TTLCache.get: the store it leaves (an expired entry is popped)
CacheGetStore(store, key) ==
    {x \in store : ~(x.key = key /\ x.expires_in < 0)}

\* TTLCache.set that stores time.monotonic() without adding the ttl
CacheSetNoTtl(store, key, value, ttl) ==
    {x \in store : x.key # key}
        \cup {[key |-> key, expires_in |-> 0, value |-> value]}

\* TTLCache.set
CacheSet(store, key, value, ttl) ==
    {x \in store : x.key # key}
        \cup {[key |-> key, expires_in |-> ttl, value |-> value]}

\* the clock advances by d
CacheAge(store, d) ==
    {[x EXCEPT !.expires_in = Max(@ - d, -1)] : x \in store}

\* -------------------------------------------------------------------- state
VARIABLES
    jumps_left,     \* advances of the clock the behaviour may still make
    calls_left,     \* provider operations the behaviour may still start
    rate_limiter,   \* RateLimiter: min_interval, _lock (holder), _last_call
    quote_cache,    \* MassiveProvider._quote_cache._store
    universe_cache, \* MassiveProvider._universe_cache._store
    fundamentals_cache, \* MassiveProvider._fundamentals_cache._store
    client,         \* _owns_client, the httpx client's state, pool releases
    closes,         \* calls of MassiveProvider.aclose so far
    fr,             \* per caller: the frame of its running coroutine
    sent,           \* history: the last two client.get dispatches
    watch,          \* history: one quote some get_quote call returned
    last_set,       \* history: per quote key, the last value set and its age
    probe,          \* history: the last TTLCache.get and what it found
    scoring,        \* one call of the scoring functions: arguments, result
    job,            \* one build_recommendations or run_backtest invocation
    market,         \* what the provider of that invocation answers
    api             \* the application, the alert repository, the last answer

\* the state of the analysis services, which the adapter never touches
analysis == <<scoring, job, market, api>>

vars == <<jumps_left, calls_left, rate_limiter, quote_cache, universe_cache,
          fundamentals_cache, client, closes, fr, sent, watch, last_set,
          probe, analysis>>

\* what a step of the retry loop leaves alone
others == <<jumps_left, calls_left, quote_cache, universe_cache, client,
            closes, watch, last_set, probe, analysis, fundamentals_cache>>

\* self._max_retries, massive.py:135 (main.py:15 leaves the default)
max_retries == DEFAULT_MAX_RETRIES

\* A coroutine frame of one provider operation.  pc is the suspension
\* point; the fields after "list" are history of the running call.
NewFrame ==
    [pc |-> "idle", op |-> "none", arg |-> <<>>, symbol |-> <<>>,
     attempt |-> 0, last_error |-> "none", wake_in |-> 0,
     tickers |-> <<>>, next_url |-> "None",
     outcome |-> "none", error |-> "none", quote |-> {}, list |-> <<>>,
     hit |-> FALSE,        \* answered from the cache
     dispatches |-> 0,     \* client.get calls of the current _fetch_json
     total_dispatches |-> 0, \* client.get calls of the whole operation
     last_resp |-> "none", \* what the last of them came back with
     nodata |-> FALSE,     \* it said: symbol unknown, or no price for it
     only_5xx |-> TRUE,    \* every answer to this _fetch_json was a 5xx
     retry_after |-> 0,    \* while sleeping after a 429: its Retry-After
     sleep_for |-> 0,      \* while sleeping in the loop: the time asked for
     writes |-> 0,         \* cache writes of this operation
     pages |-> <<>>,       \* raw result pages received by list_tickers,
                           \* but for those without results
     fresh |-> FALSE,      \* get_quote returned its quote this instant
     expect |-> {},        \* the watched return, if for this symbol and
                           \* not more than 30 s before the call
     latest |-> {},        \* the quote last fetched for the symbol
     universe |-> {},      \* the universe cache as list_tickers found it
     fundamentals |-> {},  \* what get_fundamentals returned ({} is None)
     candles |-> <<>>]     \* what get_history returned

Keys == {<<"A", "B">>, <<"B">>}

NoProbe == [key |-> <<>>, got |-> {}, kept |-> FALSE, set |-> {}]

\* the adapter as constructed (massive.py:119-139), with the budget of the
\* behaviour
Constructed(max_calls, max_jumps, owns, intervals) ==
    /\ jumps_left = max_jumps
    /\ calls_left = max_calls
    /\ \E i \in intervals : \E t \in InitialTimes :
          rate_limiter = [min_interval |-> i, lock |-> "free",
                          since_last_call |-> Min(t - 0, i)]
    /\ quote_cache = {}
    /\ universe_cache = {}
    /\ fundamentals_cache = {}
    /\ client \in [owns_client : owns, state : {"open"}, releases : {0}]
    /\ closes = 0
    /\ fr = [c \in Callers |-> NewFrame]
    /\ sent = [n |-> 0, since |-> 0, gap |-> 0]
    /\ watch = {}
    /\ last_set = [k \in Keys |-> {}]
    /\ probe = NoProbe

\* no analysis is run
NoAnalysis == scoring = <<>> /\ job = <<>> /\ market = <<>> /\ api = <<>>

Init == Constructed(MaxCalls, 0, BOOLEAN, Intervals) /\ NoAnalysis

\* ------------------------------------------------------------- RateLimiter
\* self._client.get(url) is called: the request is on its way
Dispatch(f) ==
    [f EXCEPT !.pc = "http", !.dispatches = @ + 1,
              !.total_dispatches = Min(@ + 1, MaxDispatches)]

\* RateLimiter.wait up to its first suspension (massive.py:107-113), then
\* the dispatch of massive.py:269-271 when wait() returned without
\* suspending.  Result: the frame, the limiter, whether a request was sent.
\* RateLimiter.wait without "async with self._lock"
WaitEnterNoLock(c, f) ==
    LET wait_time == rate_limiter.min_interval - rate_limiter.since_last_call
    IN  IF wait_time > 0
        THEN [f |-> [f EXCEPT !.pc = "rl_sleep", !.wake_in = wait_time],
              rl |-> rate_limiter, sent |-> FALSE]
        ELSE [f |-> Dispatch(f),
              rl |-> [rate_limiter EXCEPT !.since_last_call = 0],
              sent |-> TRUE]

WaitEnter(c, f) ==
    IF rate_limiter.lock # "free"
    THEN [f |-> [f EXCEPT !.pc = "rl_lock"], rl |-> rate_limiter,
          sent |-> FALSE]
    ELSE LET elapsed == rate_limiter.since_last_call
             wait_time == rate_limiter.min_interval - elapsed
         IN  IF wait_time > 0
             THEN [f |-> [f EXCEPT !.pc = "rl_sleep", !.wake_in = wait_time],
                   rl |-> [rate_limiter EXCEPT !.lock = c], sent |-> FALSE]
             ELSE [f |-> Dispatch(f),
                   rl |-> [rate_limiter EXCEPT !.since_last_call = 0],
                   sent |-> TRUE]

\* ------------------------------------------------------------- _fetch_json
Raise(f, err) ==
    [f EXCEPT !.pc = "done", !.outcome = "raised", !.error = err]

\* the loop with "attempt <= self._max_retries"
FetchLoopOffByOne(c, f) ==
    IF f.attempt <= max_retries
    THEN WaitEnter(c, [f EXCEPT !.attempt = @ + 1])
    ELSE [f |-> Raise(f, IF f.last_error # "none" THEN f.last_error
                         ELSE "RuntimeError"),
          rl |-> rate_limiter, sent |-> FALSE]

\* the head of "while attempt < self._max_retries" and what follows the
\* loop (massive.py:266-268, 299-301)
FetchLoop(c, f) ==
    IF f.attempt < max_retries
    THEN WaitEnter(c, [f EXCEPT !.attempt = @ + 1])
    ELSE [f |-> Raise(f, IF f.last_error # "none" THEN f.last_error
                         ELSE "RuntimeError"),
          rl |-> rate_limiter, sent |-> FALSE]

\* a new _fetch_json call (massive.py:264-265)
FetchJson(c, f) ==
    FetchLoop(c, [f EXCEPT !.attempt = 0, !.last_error = "none",
                           !.dispatches = 0, !.last_resp = "none",
                           !.only_5xx = TRUE])

Still(f) == [f |-> f, rl |-> rate_limiter, sent |-> FALSE]

\* the new frame, limiter and dispatch history of a step of caller c
Commit(c, b) ==
    /\ fr' = [fr EXCEPT ![c] = b.f]
    /\ rate_limiter' = b.rl
    /\ sent' = IF b.sent
               THEN [n |-> Min(sent.n + 1, 2), since |-> 0, gap |-> sent.since]
               ELSE sent

\* a caller queued on RateLimiter._lock gets it (massive.py:108)
RlAcquire(c) ==
    /\ fr[c].pc = "rl_lock"
    /\ rate_limiter.lock = "free"
    /\ Commit(c, WaitEnter(c, fr[c]))
    /\ UNCHANGED others

\* the request dispatched after the sleep with _last_call left as it was
RlWakeNoTimestamp(c) ==
    /\ fr[c].pc = "rl_sleep"
    /\ fr[c].wake_in = 0
    /\ Commit(c, [f |-> Dispatch(fr[c]),
                  rl |-> [rate_limiter EXCEPT !.lock = "free"],
                  sent |-> TRUE])
    /\ UNCHANGED others

\* asyncio.sleep(wait_time) is over: the timestamp is updated, the lock
\* released and the request dispatched (massive.py:112-113, 269-271)
RlWake(c) ==
    /\ fr[c].pc = "rl_sleep"
    /\ fr[c].wake_in = 0
    /\ Commit(c, [f |-> Dispatch(fr[c]),
                  rl |-> [rate_limiter EXCEPT !.since_last_call = 0,
                                              !.lock = "free"],
                  sent |-> TRUE])
    /\ UNCHANGED others

\* asyncio.sleep(d) of the retry loop
Sleep(f, d, pc) == [f EXCEPT !.pc = pc, !.wake_in = d, !.sleep_for = d]

Got(f, what) ==
    [f EXCEPT !.last_resp = what, !.only_5xx = @ /\ what = "5xx"]

\* client.get raised httpx.RequestError / TimeoutException
\* (massive.py:272-275)
HttpRequestError(c) ==
    /\ fr[c].pc = "http"
    /\ Commit(c, Still(Sleep([Got(fr[c], "RequestError")
                                EXCEPT !.last_error = "RequestError"],
                             BACKOFF_STEP * fr[c].attempt, "backoff")))
    /\ UNCHANGED others

\* the Retry-After headers the upstream sends with a 429
RetryAfterHeaders == {"absent", "0", "2", "date"}

\* float(response.headers.get("Retry-After", "0.5")) in milliseconds;
\* {} when float() raises ValueError (massive.py:278)
ParseRetryAfter(h) ==
    CASE h = "absent" -> {DEFAULT_RETRY_AFTER}
      [] h = "0" -> {0}
      [] h = "2" -> {2000}
      [] OTHER -> {}

\* the wait after a 429 (massive.py:279)
RetryAfterWait(retry_after) == Max(retry_after, DEFAULT_RATE_LIMIT_INTERVAL)

\* a 429 that gives the attempt back to the loop
Http429Uncounted(c, h) ==
    /\ fr[c].pc = "http"
    /\ LET f == [Got(fr[c], "429") EXCEPT !.attempt = @ - 1]
           ra == ParseRetryAfter(h)
       IN  IF ra = {}
           THEN Commit(c, Still(Raise(f, "ValueError")))
           ELSE LET retry_after == CHOOSE x \in ra : TRUE
                IN  Commit(c, Still(Sleep(
                        [f EXCEPT !.retry_after = retry_after],
                        RetryAfterWait(retry_after), "backoff")))
    /\ UNCHANGED others

\* status 429 (massive.py:277-280)
Http429(c, h) ==
    /\ fr[c].pc = "http"
    /\ LET f == Got(fr[c], "429")
           ra == ParseRetryAfter(h)
       IN  IF ra = {}
           THEN Commit(c, Still(Raise(f, "ValueError")))
           ELSE LET retry_after == CHOOSE x \in ra : TRUE
                IN  Commit(c, Still(Sleep(
                        [f EXCEPT !.retry_after = retry_after],
                        RetryAfterWait(retry_after), "backoff")))
    /\ UNCHANGED others

\* status >= 500: the sleep comes before last_error is set
\* (massive.py:282-287)
Http5xx(c) ==
    /\ fr[c].pc = "http"
    /\ Commit(c, Still(Sleep(Got(fr[c], "5xx"),
                             BACKOFF_STEP * fr[c].attempt, "backoff_5xx")))
    /\ UNCHANGED others

\* the statuses below 500, other than 429, that are no success
ClientErrors == {"400", "404"}

\* a 4xx handled like a 5xx: back off, then try again
HttpClientErrorRetried(c, status) ==
    /\ fr[c].pc = "http"
    /\ Commit(c, Still(Sleep(Got(fr[c], status),
                             BACKOFF_STEP * fr[c].attempt, "backoff_5xx")))
    /\ UNCHANGED others

\* response.raise_for_status() raises (massive.py:289)
HttpClientError(c, status) ==
    /\ fr[c].pc = "http"
    /\ Commit(c, Still(Raise([Got(fr[c], status)
                                 EXCEPT !.nodata = (status = "404")],
                             "HTTPStatusError")))
    /\ UNCHANGED others

\* a 2xx body that is no JSON, or JSON but no object (massive.py:290-296)
HttpBadBody(c, kind) ==
    /\ fr[c].pc = "http"
    /\ Commit(c, Still(Raise(Got(fr[c], kind),
                             IF kind = "nonjson" THEN "ValueError"
                             ELSE "TypeError")))
    /\ UNCHANGED others

\* the retry loop going on before its sleep is over
BackoffWakeEarly(c) ==
    /\ fr[c].pc \in {"backoff", "backoff_5xx"}
    /\ LET f == [fr[c] EXCEPT !.sleep_for = 0, !.retry_after = 0,
                              !.wake_in = 0]
       IN  Commit(c, FetchLoop(c, IF f.pc = "backoff_5xx"
                                  THEN [f EXCEPT !.last_error = "ServerError"]
                                  ELSE f))
    /\ UNCHANGED others

\* the sleep of the retry loop is over: "continue" (massive.py:275, 280,
\* 284-287)
BackoffWake(c) ==
    /\ fr[c].pc \in {"backoff", "backoff_5xx"}
    /\ fr[c].wake_in = 0
    /\ LET f == [fr[c] EXCEPT !.sleep_for = 0, !.retry_after = 0]
       IN  Commit(c, FetchLoop(c, IF f.pc = "backoff_5xx"
                                  THEN [f EXCEPT !.last_error = "ServerError"]
                                  ELSE f))
    /\ UNCHANGED others

\* ---------------------------------------------------------------- get_quote
\* the symbols callers ask for
QuoteSymbols == {<<"a", "b">>, <<"A", "B">>, <<"b">>}

\* JSON objects the snapshot endpoint answers with.  ticker: whether the
\* "ticker" key is missing, holds a snapshot object, or holds something
\* MassiveSnapshotTicker rejects.  p = lastTrade.p, c = day.c, v = day.v,
\* chg = todaysChangePerc; 0 stands for a value that is missing, null or
\* zero, which the code does not tell apart (.get(..) truthiness, "or 0").
SnapshotBodies ==
    {[ticker |-> t, p |-> 0, c |-> 0, v |-> 0, chg |-> 0] :
        t \in {"missing", "invalid"}}
    \cup {[ticker |-> "object", p |-> p, c |-> c, v |-> IF c = 0 THEN 0 ELSE 7,
           chg |-> IF p = 10 THEN 2 ELSE 0] : p \in {0, 10}, c \in {0, 20}}

\* _resolve_price: {} is None (massive.py:320-325)
resolve_price(snapshot) ==
    IF snapshot.p # 0 THEN {snapshot.p}
    ELSE IF snapshot.c # 0 THEN {snapshot.c}
    ELSE {}

\* _resolve_volume, then "or 0" (massive.py:327-330, 194)
resolve_volume(snapshot) == IF snapshot.v # 0 THEN snapshot.v ELSE 0

Returned(f, q) ==
    [f EXCEPT !.pc = "done", !.outcome = "returned", !.quote = q,
              !.fresh = q # {}]

\* a caller is free to start an operation: none after shutdown (main.py:24-28)
Calling(c) ==
    /\ fr[c].pc \in {"idle", "done"}
    /\ calls_left > 0
    /\ closes = 0
    /\ calls_left' = calls_left - 1

\* get_quote up to its first suspension (massive.py:171-180)
get_quote(c, s) ==
    /\ Calling(c)
    /\ LET symbol == Upper(s)
           cached == CacheGetValue(quote_cache, symbol)
           f == [NewFrame EXCEPT
                   !.op = "get_quote", !.arg = s, !.symbol = symbol,
                   !.expect = {w \in watch : /\ w.symbol = symbol
                                             /\ w.age <= QUOTE_TTL_SECONDS},
                   !.latest = IF symbol \in Keys
                              THEN {x.value : x \in last_set[symbol]}
                              ELSE {}]
       IN  /\ quote_cache' = CacheGetStore(quote_cache, symbol)
           /\ IF cached # {}
              THEN Commit(c, Still([Returned(f, cached) EXCEPT !.hit = TRUE]))
              ELSE Commit(c, FetchJson(c, f))
    /\ UNCHANGED <<jumps_left, universe_cache, client, closes, watch,
                   last_set, probe, analysis,
                   fundamentals_cache>>

\* get_quote from the JSON object on (massive.py:181-197)
QuoteBody(c, body) ==
    /\ fr[c].pc = "http"
    /\ fr[c].op = "get_quote"
    /\ LET f == [Got(fr[c], "ok") EXCEPT
                   !.nodata = \/ body.ticker = "missing"
                              \/ body.ticker = "object" /\ body.p = 0
                                                        /\ body.c = 0]
           price == resolve_price(body)
           quote == [symbol |-> f.symbol,
                     price |-> CHOOSE x \in price : TRUE,
                     change_pct |-> body.chg,
                     volume |-> resolve_volume(body)]
       IN  IF body.ticker = "missing" \/ (body.ticker = "object" /\ price = {})
           THEN /\ Commit(c, Still(Returned(f, {})))
                /\ UNCHANGED <<quote_cache, last_set>>
           ELSE IF body.ticker = "invalid"
           THEN /\ Commit(c, Still(Raise(f, "ValidationError")))
                /\ UNCHANGED <<quote_cache, last_set>>
           ELSE /\ quote_cache' = CacheSet(quote_cache, f.symbol, quote,
                                           QUOTE_TTL_SECONDS)
                /\ Commit(c, Still([Returned(f, {quote})
                                      EXCEPT !.writes = @ + 1]))
                /\ last_set' = [last_set EXCEPT ![f.symbol] =
                                   {[value |-> quote, age |-> 0]}]
    /\ UNCHANGED <<jumps_left, calls_left, universe_cache, client, closes,
                   watch, probe, analysis,
                   fundamentals_cache>>

\* history: an observer notes the quote a get_quote call returns
Watch(c) ==
    /\ fr[c].pc = "done"
    /\ fr[c].op = "get_quote"
    /\ fr[c].fresh
    /\ watch = {}
    /\ watch' = {[symbol |-> fr[c].symbol, age |-> 0, hit |-> fr[c].hit,
                  quote |-> CHOOSE q \in fr[c].quote : TRUE]}
    /\ UNCHANGED <<jumps_left, calls_left, rate_limiter, quote_cache,
                   universe_cache, client, closes, fr, sent, last_set, probe,
                   analysis, fundamentals_cache>>

\* ------------------------------------------------------------- list_tickers
\* items of "results" of the reference endpoint; an optional string is the
\* set of its values ({} is null)
RawItems ==
    <<[ticker |-> <<" ", "a", "b">>, name |-> "Alpha", market |-> "stocks",
       primary_exchange |-> "None", currency_name |-> {<<"b", "a">>}],
      [ticker |-> <<"B", " ">>, name |-> "None", market |-> "stocks",
       primary_exchange |-> "XNYS", currency_name |-> {}],
      [ticker |-> <<"a">>, name |-> "Alef", market |-> "None",
       primary_exchange |-> "None", currency_name |-> {<<>>}]>>

\* the "results" lists the upstream serves as pages
ResultPages == {<<RawItems[1], RawItems[2]>>, <<RawItems[3]>>}

\* next_url of a page: null, empty, or a URL
NextUrls == {"None", "", "url"}

\* MassiveTickerReference.validate_symbol (massive.py:33-36)
validate_symbol(value) == Upper(Strip(value))

\* Ticker(...) of massive.py:158-164
MakeTicker(item) ==
    [symbol |-> validate_symbol(item.ticker),
     name |-> item.name,
     market |-> item.market,
     exchange |-> item.primary_exchange,
     currency |-> IF item.currency_name # {} /\ item.currency_name # {<<>>}
                  THEN {Upper(x) : x \in item.currency_name}
                  ELSE {}]

\* the for loop putting each new ticker in front of the list
AppendTickersReversed(tickers, results) ==
    [i \in DOMAIN results |-> MakeTicker(results[i])] \o tickers

\* the for loop of massive.py:156-165
AppendTickers(tickers, results) ==
    tickers \o [i \in DOMAIN results |-> MakeTicker(results[i])]

\* list_tickers up to its first suspension (massive.py:145-154)
list_tickers(c) ==
    /\ Calling(c)
    /\ LET cached == CacheGetValue(universe_cache, "universe")
           f == [NewFrame EXCEPT !.op = "list_tickers", !.next_url = "url",
                                 !.universe = universe_cache]
       IN  /\ universe_cache' = CacheGetStore(universe_cache, "universe")
           /\ IF cached # {}
              THEN Commit(c, Still([f EXCEPT
                       !.pc = "done", !.outcome = "returned", !.hit = TRUE,
                       !.list = CHOOSE l \in cached : TRUE]))
              ELSE Commit(c, FetchJson(c, f))
    /\ UNCHANGED <<jumps_left, quote_cache, client, closes, watch, last_set,
                   probe, analysis,
                   fundamentals_cache>>

\* list_tickers caching the tickers it has after every page
TickersBodyCachingPages(c, results, next_url) ==
    /\ fr[c].pc = "http"
    /\ fr[c].op = "list_tickers"
    /\ next_url = "url" =>
          results = <<>> \/ Len(fr[c].pages) + 1 < MaxPages
    /\ LET f == [Got(fr[c], "ok") EXCEPT
                   !.tickers = AppendTickers(@, results),
                   !.next_url = next_url,
                   !.pages = IF results = <<>> THEN @
                             ELSE Append(@, results)]
       IN  /\ universe_cache' = CacheSet(universe_cache, "universe",
                                         f.tickers, UNIVERSE_TTL_SECONDS)
           /\ IF f.next_url \notin {"None", ""}
              THEN Commit(c, FetchJson(c, f))
              ELSE Commit(c, Still([f EXCEPT
                       !.pc = "done", !.outcome = "returned",
                       !.list = f.tickers, !.writes = @ + 1]))
    /\ UNCHANGED <<jumps_left, calls_left, quote_cache, client, closes,
                   watch, last_set, probe, analysis,
                   fundamentals_cache>>

\* one page arrived: massive.py:155-169
TickersBody(c, results, next_url) ==
    /\ fr[c].pc = "http"
    /\ fr[c].op = "list_tickers"
    /\ next_url = "url" =>
          results = <<>> \/ Len(fr[c].pages) + 1 < MaxPages
    /\ LET f == [Got(fr[c], "ok") EXCEPT
                   !.tickers = AppendTickers(@, results),
                   !.next_url = next_url,
                   !.pages = IF results = <<>> THEN @
                             ELSE Append(@, results)]
       IN  IF f.next_url \notin {"None", ""}
           THEN /\ Commit(c, FetchJson(c, f))
                /\ UNCHANGED universe_cache
           ELSE /\ universe_cache' = CacheSet(universe_cache, "universe",
                                              f.tickers, UNIVERSE_TTL_SECONDS)
                /\ Commit(c, Still([f EXCEPT
                       !.pc = "done", !.outcome = "returned",
                       !.list = f.tickers, !.writes = @ + 1]))
    /\ UNCHANGED <<jumps_left, calls_left, quote_cache, client, closes,
                   watch, last_set, probe, analysis,
                   fundamentals_cache>>

\* a page MassiveTickerListResponse rejects (massive.py:155)
TickersInvalid(c) ==
    /\ fr[c].pc = "http"
    /\ fr[c].op = "list_tickers"
    /\ Commit(c, Still(Raise(Got(fr[c], "ok"), "ValidationError")))
    /\ UNCHANGED others

\* ---------------------------------------------------------- get_fundamentals
\* the first record of "results" of the financials endpoint, by the value
\* its metrics and its ratios hold for "pe_ratio" ({} is none); no other
\* key of the rules is in them
FinancialRecords ==
    [metrics : {{}, {12}}, ratios : {{}, {30}}]

\* JSON objects the financials endpoint answers with: "results" is missing
\* or empty, holds a record, or is something MassiveFinancialsResponse
\* rejects
FinancialBodies ==
    {[results |-> "empty", record |-> [metrics |-> {}, ratios |-> {}]],
     [results |-> "invalid", record |-> [metrics |-> {}, ratios |-> {}]]}
    \cup {[results |-> "records", record |-> r] : r \in FinancialRecords}

\* _pick (massive.py:351-362): the metrics first, then the ratios
pick(metrics, ratios) == IF metrics # {} THEN metrics ELSE ratios

\* Fundamentals(...) of massive.py:245-254
MakeFundamentals(record) ==
    [pe |-> pick(record.metrics, record.ratios), ps |-> {}, roe |-> {},
     debt_to_equity |-> {}, growth_5y |-> {}, profit_margin |-> {},
     beta |-> {}, dividend_yield |-> {}]

\* get_fundamentals up to its first suspension (massive.py:227-236)
get_fundamentals(c, s) ==
    /\ Calling(c)
    /\ LET symbol == Upper(s)
           cached == CacheGetValue(fundamentals_cache, symbol)
           f == [NewFrame EXCEPT !.op = "get_fundamentals", !.arg = s,
                                 !.symbol = symbol]
       IN  /\ fundamentals_cache' = CacheGetStore(fundamentals_cache, symbol)
           /\ IF cached # {}
              THEN Commit(c, Still([f EXCEPT
                       !.pc = "done", !.outcome = "returned", !.hit = TRUE,
                       !.fundamentals = cached]))
              ELSE Commit(c, FetchJson(c, f))
    /\ UNCHANGED <<jumps_left, quote_cache, universe_cache, client, closes,
                   watch, last_set, probe, analysis>>

\* get_fundamentals that also caches the absence of results
FundamentalsBodyCachingAbsent(c, body) ==
    /\ fr[c].pc = "http"
    /\ fr[c].op = "get_fundamentals"
    /\ LET f == Got(fr[c], "ok")
           fundamentals == MakeFundamentals(body.record)
       IN  IF body.results = "invalid"
           THEN /\ Commit(c, Still(Raise(f, "ValidationError")))
                /\ UNCHANGED fundamentals_cache
           ELSE IF body.results = "empty"
           THEN /\ fundamentals_cache' =
                      CacheSet(fundamentals_cache, f.symbol, <<>>,
                               FUNDAMENTALS_TTL_SECONDS)
                /\ Commit(c, Still([f EXCEPT
                       !.pc = "done", !.outcome = "returned"]))
           ELSE /\ fundamentals_cache' =
                      CacheSet(fundamentals_cache, f.symbol, fundamentals,
                               FUNDAMENTALS_TTL_SECONDS)
                /\ Commit(c, Still([f EXCEPT
                       !.pc = "done", !.outcome = "returned",
                       !.fundamentals = {fundamentals}, !.writes = @ + 1]))
    /\ UNCHANGED <<jumps_left, calls_left, quote_cache, universe_cache,
                   client, closes, watch, last_set, probe, analysis>>

\* get_fundamentals from the JSON object on (massive.py:237-257)
FundamentalsBody(c, body) ==
    /\ fr[c].pc = "http"
    /\ fr[c].op = "get_fundamentals"
    /\ LET f == Got(fr[c], "ok")
           fundamentals == MakeFundamentals(body.record)
       IN  IF body.results = "invalid"
           THEN /\ Commit(c, Still(Raise(f, "ValidationError")))
                /\ UNCHANGED fundamentals_cache
           ELSE IF body.results = "empty"
           THEN /\ Commit(c, Still([f EXCEPT
                       !.pc = "done", !.outcome = "returned"]))
                /\ UNCHANGED fundamentals_cache
           ELSE /\ fundamentals_cache' =
                      CacheSet(fundamentals_cache, f.symbol, fundamentals,
                               FUNDAMENTALS_TTL_SECONDS)
                /\ Commit(c, Still([f EXCEPT
                       !.pc = "done", !.outcome = "returned",
                       !.fundamentals = {fundamentals}, !.writes = @ + 1]))
    /\ UNCHANGED <<jumps_left, calls_left, quote_cache, universe_cache,
                   client, closes, watch, last_set, probe, analysis>>

\* -------------------------------------------------------------- get_history
\* "results" of the aggregates endpoint: lists of records (t, c) with the
\* close {} where it is null
AggResults ==
    {<<>>, <<[t |-> 1, c |-> {10}], [t |-> 2, c |-> {}]>>}

\* Candle(...) of massive.py:215-222: timestamp and close
MakeCandle(record) ==
    [timestamp |-> record.t,
     close |-> IF record.c # {} THEN CHOOSE x \in record.c : TRUE ELSE 0]

\* get_history up to its first suspension (massive.py:207-212)
get_history(c, s) ==
    /\ Calling(c)
    /\ Commit(c, FetchJson(c, [NewFrame EXCEPT !.op = "get_history",
                                               !.arg = s,
                                               !.symbol = Upper(s)]))
    /\ UNCHANGED <<jumps_left, quote_cache, universe_cache,
                   fundamentals_cache, client, closes, watch, last_set,
                   probe, analysis>>

\* get_history from the JSON object on (massive.py:213-225)
HistoryBody(c, results) ==
    /\ fr[c].pc = "http"
    /\ fr[c].op = "get_history"
    /\ Commit(c, Still([Got(fr[c], "ok") EXCEPT
             !.pc = "done", !.outcome = "returned",
             !.candles = [n \in DOMAIN results |-> MakeCandle(results[n])]]))
    /\ UNCHANGED others

\* a body MassiveAggsResponse rejects (massive.py:213)
HistoryInvalid(c) ==
    /\ fr[c].pc = "http"
    /\ fr[c].op = "get_history"
    /\ Commit(c, Still(Raise(Got(fr[c], "ok"), "ValidationError")))
    /\ UNCHANGED others

\* ------------------------------------------------------------------- aclose
\* httpx.AsyncClient.aclose, the callee of massive.py:143: it closes the
\* transport unless the client is closed already
ClientAclose(cl) ==
    IF cl.state # "closed"
    THEN [cl EXCEPT !.state = "closed", !.releases = @ + 1]
    ELSE cl

\* aclose closing the transport itself, whatever the state of the client
AcloseUnguarded(cl) ==
    IF cl.owns_client
    THEN [cl EXCEPT !.state = "closed", !.releases = @ + 1]
    ELSE cl

\* the body of MassiveProvider.aclose (massive.py:142-143)
Aclose(cl) == IF cl.owns_client THEN ClientAclose(cl) ELSE cl

\* MassiveProvider.aclose, called when the application shuts down, after
\* the requests it served (main.py:24-28)
aclose ==
    /\ closes < MaxCloses
    /\ \A c \in Callers : fr[c].pc \in {"idle", "done"}
    /\ closes' = closes + 1
    /\ client' = Aclose(client)
    /\ UNCHANGED <<jumps_left, calls_left, rate_limiter, quote_cache,
                   universe_cache, fr, sent, watch, last_set, probe,
                   analysis, fundamentals_cache>>

\* --------------------------------------------------------------------- time
Sleeping ==
    {c \in Callers : fr[c].pc \in {"rl_sleep", "backoff", "backoff_5xx"}}

\* time-out of the history: an age past the quote TTL is as old as any
AgeCap == QUOTE_TTL_SECONDS + 1

\* the clock advances by d
Advance(d) ==
    /\ fr' = [c \in Callers |->
                [fr[c] EXCEPT !.wake_in = Max(@ - d, 0), !.fresh = FALSE]]
    /\ rate_limiter' =
          [rate_limiter EXCEPT
              !.since_last_call = Min(@ + d, rate_limiter.min_interval)]
    /\ quote_cache' = CacheAge(quote_cache, d)
    /\ universe_cache' = CacheAge(universe_cache, d)
    /\ fundamentals_cache' = CacheAge(fundamentals_cache, d)
    /\ sent' = [sent EXCEPT !.since = Min(@ + d, rate_limiter.min_interval)]
    /\ watch' = {[w EXCEPT !.age = Min(@ + d, AgeCap)] : w \in watch}
    /\ last_set' = [k \in Keys |->
                      {[x EXCEPT !.age = Min(@ + d, AgeCap)] :
                          x \in last_set[k]}]

\* the clock advances to the moment a sleeper is due
Elapse ==
    /\ \E c \in Sleeping : fr[c].wake_in > 0 /\ Advance(fr[c].wake_in)
    /\ UNCHANGED <<jumps_left, calls_left, client, closes, probe, analysis>>

\* the clock advances by one of the given steps
Jump(steps) ==
    /\ jumps_left > 0
    /\ jumps_left' = jumps_left - 1
    /\ \E d \in steps : Advance(d)
    /\ UNCHANGED <<calls_left, client, closes, probe, analysis>>

\* ------------------------------------------------------------------- Spec
\* One caller uses the adapter: every operation, every upstream answer.
Next ==
    \/ \E s \in QuoteSymbols : get_quote("c1", s)
    \/ list_tickers("c1")
    \/ RlWake("c1")
    \/ HttpRequestError("c1")
    \/ \E h \in RetryAfterHeaders : Http429("c1", h)
    \/ Http5xx("c1")
    \/ \E status \in ClientErrors : HttpClientError("c1", status)
    \/ \E kind \in {"nonjson", "nonobject"} : HttpBadBody("c1", kind)
    \/ BackoffWake("c1")
    \/ \E body \in SnapshotBodies : QuoteBody("c1", body)
    \/ \E results \in ResultPages : \E next_url \in NextUrls :
          TickersBody("c1", results, next_url)
    \/ TickersInvalid("c1")
    \/ aclose
    \/ Elapse

Spec == Init /\ [][Next]_vars

\* ----------------------------------------------------------------- SpecFair
\* The single caller of Spec on an event loop that runs every coroutine
\* that is ready and a clock that goes on: a sleep that is over is left, a
\* sleeper's time comes, and client.get comes back with an answer or, by
\* the time-out of the client at the latest (massive.py:132), an error.
Answers ==
    \/ HttpRequestError("c1")
    \/ \E h \in RetryAfterHeaders : Http429("c1", h)
    \/ Http5xx("c1")
    \/ \E status \in ClientErrors : HttpClientError("c1", status)
    \/ \E kind \in {"nonjson", "nonobject"} : HttpBadBody("c1", kind)
    \/ \E body \in SnapshotBodies : QuoteBody("c1", body)
    \/ \E results \in ResultPages : \E next_url \in NextUrls :
          TickersBody("c1", results, next_url)
    \/ TickersInvalid("c1")

SpecFair ==
    /\ Spec
    /\ WF_vars(RlWake("c1"))
    /\ WF_vars(BackoffWake("c1"))
    /\ WF_vars(Elapse)
    /\ WF_vars(Answers)

\* ---------------------------------------------------------------- SpecPages
\* One list_tickers call on the fair event loop, with an upstream that may
\* answer any page with results or without, and with a next_url or none.
AnswersPages ==
    \/ HttpClientError("c1", "404")
    \/ \E results \in ResultPages \cup {<<>>} : \E next_url \in NextUrls :
          TickersBody("c1", results, next_url)
    \/ TickersInvalid("c1")

NextPages ==
    \/ list_tickers("c1")
    \/ RlWake("c1")
    \/ Elapse
    \/ AnswersPages

SpecPages ==
    /\ Init
    /\ [][NextPages]_vars
    /\ WF_vars(RlWake("c1"))
    /\ WF_vars(Elapse)
    /\ WF_vars(AnswersPages)

\* ------------------------------------------------------------- SpecLimiter
\* Two callers fetch at the same time from an upstream that answers with a
\* snapshot or fails with a 5xx: the requests of both pass the one limiter.
InitLimiter ==
    Constructed(MaxLimiterCalls, MaxJumps, {TRUE}, Intervals) /\ NoAnalysis

TickLimiter == Jump({1})

NextLimiter ==
    \/ \E c \in Callers : get_quote(c, <<"a", "b">>)
    \/ \E c \in Callers : RlAcquire(c)
    \/ \E c \in Callers : RlWake(c)
    \/ \E c \in Callers : Http5xx(c)
    \/ \E c \in Callers : BackoffWake(c)
    \/ \E c \in Callers : \E body \in SnapshotBodies : QuoteBody(c, body)
    \/ Elapse
    \/ TickLimiter

SpecLimiter == InitLimiter /\ [][NextLimiter]_vars

\* --------------------------------------------------------------- SpecQuote
\* Two callers ask for quotes of one symbol, one after the other or at the
\* same time, while the clock runs past the quote TTL; the upstream answers
\* with a snapshot or a 404.
InitQuote ==
    /\ Constructed(MaxQuoteCalls, MaxJumps, {TRUE},
                   {DEFAULT_RATE_LIMIT_INTERVAL})
    /\ NoAnalysis

TickQuote == Jump({1, QUOTE_TTL_SECONDS})

NextQuote ==
    \/ \E c \in Callers : \E s \in {<<"a", "b">>, <<"A", "B">>} :
          get_quote(c, s)
    \/ \E c \in Callers : RlAcquire(c)
    \/ \E c \in Callers : RlWake(c)
    \/ \E c \in Callers : HttpClientError(c, "404")
    \/ \E c \in Callers : \E body \in SnapshotBodies : QuoteBody(c, body)
    \/ \E c \in Callers : Watch(c)
    \/ Elapse
    \/ TickQuote

SpecQuote == InitQuote /\ [][NextQuote]_vars

\* ------------------------------------------------------------- SpecTickers
\* One caller lists the tickers again and again while the clock runs past
\* the universe TTL; a page arrives, is rejected, or the fetch fails.
MaxTickerCalls == 3

InitTickers ==
    /\ Constructed(MaxTickerCalls, MaxJumps, {TRUE},
                   {DEFAULT_RATE_LIMIT_INTERVAL})
    /\ NoAnalysis

TickTickers == Jump({1, UNIVERSE_TTL_SECONDS})

NextTickers ==
    \/ list_tickers("c1")
    \/ RlWake("c1")
    \/ Http5xx("c1")
    \/ BackoffWake("c1")
    \/ HttpClientError("c1", "404")
    \/ \E results \in ResultPages : \E next_url \in NextUrls :
          TickersBody("c1", results, next_url)
    \/ TickersInvalid("c1")
    \/ Elapse
    \/ TickTickers

SpecTickers == InitTickers /\ [][NextTickers]_vars

\* ------------------------------------------------------------- SpecLookups
\* One caller asks for the quote, the fundamentals and the history of one
\* symbol, call after call, while the clock runs past the quote TTL; the
\* upstream answers with a body or a 404.
MaxLookupCalls == 3

InitLookups ==
    /\ Constructed(MaxLookupCalls, MaxJumps, {TRUE},
                   {DEFAULT_RATE_LIMIT_INTERVAL})
    /\ NoAnalysis

TickLookups == Jump({1, QUOTE_TTL_SECONDS})

NextLookups ==
    \/ \E s \in {<<"a", "b">>, <<"A", "B">>} : get_quote("c1", s)
    \/ \E s \in {<<"a", "b">>, <<"A", "B">>} : get_fundamentals("c1", s)
    \/ \E s \in {<<"a", "b">>, <<"A", "B">>} : get_history("c1", s)
    \/ RlWake("c1")
    \/ HttpClientError("c1", "404")
    \/ \E body \in SnapshotBodies : QuoteBody("c1", body)
    \/ \E body \in FinancialBodies : FundamentalsBody("c1", body)
    \/ \E results \in AggResults : HistoryBody("c1", results)
    \/ HistoryInvalid("c1")
    \/ Elapse
    \/ TickLookups

SpecLookups == InitLookups /\ [][NextLookups]_vars

\* --------------------------------------------------------------- SpecCache
\* The TTLCache of the quotes, read and written directly.
CacheValues ==
    {[symbol |-> <<"A", "B">>, price |-> p, change_pct |-> 0, volume |-> 0] :
        p \in {10, 20}}

\* await cache.set(key, value)
TTLSet(key, value) ==
    /\ quote_cache' = CacheSet(quote_cache, key, value, QUOTE_TTL_SECONDS)
    /\ last_set' = [last_set EXCEPT ![key] = {[value |-> value, age |-> 0]}]
    /\ UNCHANGED <<jumps_left, calls_left, rate_limiter, universe_cache,
                   client, closes, fr, sent, watch, probe, analysis,
                   fundamentals_cache>>

\* await cache.get(key)
TTLGet(key) ==
    /\ quote_cache' = CacheGetStore(quote_cache, key)
    /\ probe' = [key |-> key,
                 got |-> CacheGetValue(quote_cache, key),
                 kept |-> \E x \in quote_cache' : x.key = key,
                 set |-> last_set[key]]
    /\ UNCHANGED <<jumps_left, calls_left, rate_limiter, universe_cache,
                   client, closes, fr, sent, watch, last_set, analysis,
                   fundamentals_cache>>

InitCache ==
    /\ Constructed(0, MaxJumps, {TRUE}, {DEFAULT_RATE_LIMIT_INTERVAL})
    /\ NoAnalysis

TickCache == Jump({1, QUOTE_TTL_SECONDS})

NextCache ==
    \/ \E key \in Keys : \E value \in CacheValues : TTLSet(key, value)
    \/ \E key \in Keys : TTLGet(key)
    \/ TickCache

SpecCache == InitCache /\ [][NextCache]_vars

\* ------------------------------------------------------------------ floats
\* Scores and ratios are Python floats.  The model counts them in units of
\* 1/10000: the inputs it draws are multiples of 0.01, so that every sum
\* and every weighted blend of the code is exact.
Point == 10000

\* float("nan"); every comparison with it is False
NaN == -100000000

\* a < b on floats
Lt(a, b) == a # NaN /\ b # NaN /\ a < b

\* a + b on floats
Plus(a, b) == IF a = NaN \/ b = NaN THEN NaN ELSE a + b

\* Python's min(a, b): a unless b < a
PyMin(a, b) == IF Lt(b, a) THEN b ELSE a

\* Python's max(a, b): a unless b > a
PyMax(a, b) == IF Lt(a, b) THEN b ELSE a

\* the clamp written min(max(score, 0.0), 100.0)
ClampScoreFirst(score) == PyMin(PyMax(score, 0), 100 * Point)

\* max(0.0, min(100.0, score)) (scoring.py:52 and 67, fundamentals.py:49,
\* risk.py:53)
Clamp(score) == PyMax(0, PyMin(100 * Point, score))

\* an optional float is the set of its values ({} is None)
Some(opt) == CHOOSE x \in opt : TRUE
OptLt(opt, k) == opt # {} /\ Lt(Some(opt), k)
OptGt(opt, k) == opt # {} /\ Lt(k, Some(opt))
OptGe(opt, k) == opt # {} /\ (Lt(k, Some(opt)) \/ Some(opt) = k)

\* seq[:n]
FirstN(seq, n) == SubSeq(seq, 1, Min(n, Len(seq)))

\* a rule of a score: what it adds and the factors it appends
Rule(d, factors) == [d |-> d * Point, factors |-> factors]
NoRule == Rule(0, <<>>)

RECURSIVE SumRules(_)
SumRules(rules) ==
    IF rules = <<>> THEN 0 ELSE Head(rules).d + SumRules(Tail(rules))

RECURSIVE RuleFactors(_)
RuleFactors(rules) ==
    IF rules = <<>> THEN <<>>
    ELSE Head(rules).factors \o RuleFactors(Tail(rules))

\* ------------------------------------------------------- score_fundamentals

\* score_fundamentals with 5 taken off where P/S is absent
score_fundamentals_penalising_absent(fundamentals) ==
    IF fundamentals = {}
    THEN [score |-> 50 * Point, factors |-> <<"Saknar fundamentals">>]
    ELSE LET f == Some(fundamentals)
             rules == <<
                 IF OptLt(f.pe, 15 * Point) THEN Rule(10, <<"P/E under 15">>)
                 ELSE IF OptGt(f.pe, 30 * Point) THEN Rule(-5, <<>>)
                 ELSE NoRule,
                 IF OptLt(f.ps, 3 * Point) THEN Rule(5, <<"P/S under 3">>)
                 ELSE IF f.ps = {} THEN Rule(-5, <<>>)
                 ELSE NoRule,
                 IF OptGt(f.roe, 15 * Point) THEN Rule(10, <<"ROE over 15%">>)
                 ELSE IF OptLt(f.roe, 5 * Point) THEN Rule(-5, <<>>)
                 ELSE NoRule,
                 IF OptGt(f.growth_5y, 10 * Point)
                 THEN Rule(10, <<"Tillvaxt >10% (5y)">>) ELSE NoRule,
                 IF OptGt(f.profit_margin, 15 * Point)
                 THEN Rule(5, <<"Stark marginal">>) ELSE NoRule,
                 IF OptGt(f.debt_to_equity, 1 * Point)
                 THEN Rule(-10, <<"Hog skuldsattning">>) ELSE NoRule,
                 IF OptGe(f.dividend_yield, 3 * Point)
                 THEN Rule(5, <<"Utdelning >=3%">>) ELSE NoRule>>
         IN  [score |-> Clamp(50 * Point + SumRules(rules)),
              factors |-> RuleFactors(rules)]

\* fundamentals.py:8-50; fundamentals is {} (None) or {a Fundamentals}
score_fundamentals(fundamentals) ==
    IF fundamentals = {}
    THEN [score |-> 50 * Point, factors |-> <<"Saknar fundamentals">>]
    ELSE LET f == Some(fundamentals)
             rules == <<
                 IF OptLt(f.pe, 15 * Point) THEN Rule(10, <<"P/E under 15">>)
                 ELSE IF OptGt(f.pe, 30 * Point) THEN Rule(-5, <<>>)
                 ELSE NoRule,
                 IF OptLt(f.ps, 3 * Point) THEN Rule(5, <<"P/S under 3">>)
                 ELSE NoRule,
                 IF OptGt(f.roe, 15 * Point) THEN Rule(10, <<"ROE over 15%">>)
                 ELSE IF OptLt(f.roe, 5 * Point) THEN Rule(-5, <<>>)
                 ELSE NoRule,
                 IF OptGt(f.growth_5y, 10 * Point)
                 THEN Rule(10, <<"Tillvaxt >10% (5y)">>) ELSE NoRule,
                 IF OptGt(f.profit_margin, 15 * Point)
                 THEN Rule(5, <<"Stark marginal">>) ELSE NoRule,
                 IF OptGt(f.debt_to_equity, 1 * Point)
                 THEN Rule(-10, <<"Hog skuldsattning">>) ELSE NoRule,
                 IF OptGe(f.dividend_yield, 3 * Point)
                 THEN Rule(5, <<"Utdelning >=3%">>) ELSE NoRule>>
         IN  [score |-> Clamp(50 * Point + SumRules(rules)),
              factors |-> RuleFactors(rules)]

\* ---------------------------------------------------------- score_technical
\* The DataFrame of candles_to_dataframe(entry.history) is held by what the
\* scoring reads from it: whether it is empty, the windows of 20/50/200
\* whose moving average is no NaN and below the latest close, the last RSI
\* (NaN below a full window) and, for score_risk, the last ATR in per cent
\* of the last close ({} when there is no ATR or the close is 0).
EmptyFrame == [empty |-> TRUE, above |-> {}, rsi_last |-> NaN, atr_pct |-> {}]

\* the day change added whether there is a history or not
score_technical_always_change(entry, df) ==
    LET day_change == entry.quote.change_pct
    IN  [score |-> Clamp(Plus(50 * Point,
                              PyMax(PyMin(day_change, 5 * Point),
                                    -5 * Point))),
         factors |-> <<"Ingen historik">>]

\* scoring.py:13-53
score_technical(entry, df) ==
    IF df.empty
    THEN [score |-> 50 * Point, factors |-> <<"Ingen historik">>]
    ELSE LET rules == <<
                 IF 20 \in df.above THEN Rule(10, <<"Pris over MA20">>)
                 ELSE NoRule,
                 IF 50 \in df.above THEN Rule(10, <<"Pris over MA50">>)
                 ELSE NoRule,
                 IF 200 \in df.above THEN Rule(10, <<"Pris over MA200">>)
                 ELSE NoRule,
                 IF Lt(df.rsi_last, 30 * Point)
                 THEN Rule(5, <<"RSI < 30">>)
                 ELSE IF Lt(70 * Point, df.rsi_last)
                 THEN Rule(-10, <<"RSI > 70">>)
                 ELSE NoRule>>
             day_change == entry.quote.change_pct
             score == Plus(50 * Point + SumRules(rules),
                           PyMax(PyMin(day_change, 5 * Point), -5 * Point))
         IN  [score |-> Clamp(score),
              factors |-> FirstN(RuleFactors(rules), 3)]

\* --------------------------------------------------------------- score_risk
\* risk.py:12-54
score_risk(fundamentals, df, profile) ==
    LET atr_pct == df.atr_pct
        beta == IF fundamentals = {} THEN {} ELSE Some(fundamentals).beta
        rules == <<
            IF OptLt(atr_pct, (5 * Point) \div 2)
            THEN Rule(10, <<"Lag ATR (%)">>)
            ELSE IF OptGt(atr_pct, 5 * Point) THEN Rule(-10, <<"Hog ATR (%)">>)
            ELSE NoRule,
            IF OptLt(beta, 1 * Point) THEN Rule(5, <<"Beta < 1">>)
            ELSE IF OptGt(beta, (13 * Point) \div 10)
            THEN Rule(-5, <<"Beta > 1.3">>)
            ELSE NoRule,
            IF profile = "konservativ" /\ OptGt(beta, 1 * Point)
            THEN Rule(-5, <<>>)
            ELSE IF profile = "aggressiv"
                    /\ OptGt(beta, (12 * Point) \div 10)
            THEN Rule(5, <<>>)
            ELSE NoRule,
            IF profile = "konservativ" /\ OptGt(atr_pct, 4 * Point)
            THEN Rule(-5, <<>>) ELSE NoRule,
            IF profile = "aggressiv" /\ OptLt(atr_pct, 2 * Point)
            THEN Rule(-5, <<>>) ELSE NoRule>>
    IN  [score |-> Clamp(50 * Point + SumRules(rules)),
         factors |-> RuleFactors(rules)]

\* ------------------------------------------------------------ compute_score
\* technical_score * 0.45 + fundamental_score * 0.4 + risk_score * 0.15
\* (scoring.py:62-66)
Blend(technical, fundamental, risk) ==
    IF NaN \in {technical, fundamental, risk} THEN NaN
    ELSE (45 * technical + 40 * fundamental + 15 * risk) \div 100

\* the factors with those of the risk score first
AllFactorsRiskFirst(technical, fundamental, risk) ==
    risk \o technical \o fundamental

\* technical_factors + fundamental_factors + risk_factors (scoring.py:68)
AllFactors(technical, fundamental, risk) == technical \o fundamental \o risk

\* scoring.py:56-69
compute_score(entry, profile) ==
    LET df == entry.history
        technical == score_technical(entry, df)
        fundamental == score_fundamentals(entry.fundamentals)
        risk == score_risk(entry.fundamentals, df, profile)
    IN  [score |-> Clamp(Blend(technical.score, fundamental.score,
                               risk.score)),
         factors |-> FirstN(AllFactors(technical.factors,
                                       fundamental.factors, risk.factors), 3)]

\* the signal with "score > 70" for BUY
score_to_signal_strict(score) ==
    IF Lt(70 * Point, score) THEN "BUY"
    ELSE IF Lt(score, 45 * Point) \/ score = 45 * Point THEN "SELL"
    ELSE "HOLD"

\* scoring.py:72-77
score_to_signal(score) ==
    IF Lt(70 * Point, score) \/ score = 70 * Point THEN "BUY"
    ELSE IF Lt(score, 45 * Point) \/ score = 45 * Point THEN "SELL"
    ELSE "HOLD"

\* ------------------------------------------------------------- SpecScoring
\* The scoring functions applied to one snapshot entry and risk profile, and
\* score_to_signal applied to one float.
RiskProfiles == {"konservativ", "balanserad", "aggressiv"}

\* Quote.change_pct (base.py:20)
DayChanges ==
    {NaN, -9 * Point, (-9 * Point) \div 4, 0, 5 * Point, 7 * Point}

\* Fundamentals (base.py:34-42): each ratio absent or given
FundamentalsValues ==
    [pe : {{}, {10 * Point}, {15 * Point}, {40 * Point}},
     ps : {{}, {2 * Point}, {3 * Point}},
     roe : {{}, {20 * Point}, {3 * Point}},
     debt_to_equity : {{}, {2 * Point}},
     growth_5y : {{}, {12 * Point}},
     profit_margin : {{}, {20 * Point}},
     beta : {{}, {NaN}, {(9 * Point) \div 10}, {1 * Point},
             {(125 * Point) \div 100}, {(14 * Point) \div 10}},
     dividend_yield : {{}, {3 * Point}}]

\* Fundamentals that differ in beta alone
BetaFundamentals ==
    {f \in FundamentalsValues :
        /\ f.pe = {10 * Point} /\ f.ps = {} /\ f.roe = {}
        /\ f.debt_to_equity = {} /\ f.growth_5y = {}
        /\ f.profit_margin = {} /\ f.dividend_yield = {}}

\* the DataFrames of the histories: a shorter window's average exists
\* whenever a longer one's does, but any of them may lie above the close
Frames ==
    {EmptyFrame} \cup
    [empty : {FALSE},
     above : SUBSET {20, 50, 200},
     rsi_last : {NaN, 25 * Point, 50 * Point, 80 * Point},
     atr_pct : {{}, {NaN}, {(3 * Point) \div 2}, {(22 * Point) \div 10},
                {3 * Point}, {(45 * Point) \div 10}, {6 * Point}}]

FullFrame ==
    [empty |-> FALSE, above |-> {20, 50, 200}, rsi_last |-> 80 * Point,
     atr_pct |-> {(3 * Point) \div 2}]

\* SnapshotEntry (analysis/models.py:17-20).  Every fundamentals with few
\* histories, every history and day change with few fundamentals.
Entries ==
    [quote : [change_pct : {0, 7 * Point}],
     fundamentals : {{}} \cup {{f} : f \in FundamentalsValues},
     history : {EmptyFrame, FullFrame}]
    \cup
    [quote : [change_pct : DayChanges],
     fundamentals : {{}} \cup {{f} : f \in BetaFundamentals},
     history : Frames]

\* the floats score_to_signal is applied to
SignalScores ==
    {NaN, -1 * Point, 0, 45 * Point - 1, 45 * Point, 45 * Point + 1,
     60 * Point, 70 * Point - 1, 70 * Point, 70 * Point + 1, 100 * Point,
     130 * Point}

NoScores == [technical |-> <<>>, fundamental |-> <<>>, risk |-> <<>>,
             composite |-> <<>>, signal |-> "none"]

\* the adapter, constructed and left alone
adapter == <<jumps_left, calls_left, rate_limiter, quote_cache,
             universe_cache, fundamentals_cache, client, closes, fr, sent,
             watch, last_set, probe>>

AdapterUnused == Constructed(0, 0, {TRUE}, {DEFAULT_RATE_LIMIT_INTERVAL})

InitScoring ==
    /\ AdapterUnused
    /\ api = <<>>
    /\ job = <<>>
    /\ market = <<>>
    /\ \/ \E entry \in Entries : \E profile \in RiskProfiles :
             scoring = [call |-> "compute_score", entry |-> entry,
                        profile |-> profile, score |-> 0, done |-> FALSE,
                        result |-> NoScores]
       \/ \E score \in SignalScores :
             scoring = [call |-> "score_to_signal", entry |-> <<>>,
                        profile |-> "none", score |-> score, done |-> FALSE,
                        result |-> NoScores]

\* the three sub-scores and compute_score, then score_to_signal on the
\* composite as pipeline.py:41-42 does
ComputeScore ==
    /\ scoring.call = "compute_score"
    /\ ~scoring.done
    /\ LET entry == scoring.entry
           composite == compute_score(entry, scoring.profile)
       IN  scoring' = [scoring EXCEPT
              !.done = TRUE,
              !.result = [technical |-> score_technical(entry, entry.history),
                          fundamental |->
                              score_fundamentals(entry.fundamentals),
                          risk |-> score_risk(entry.fundamentals,
                                              entry.history, scoring.profile),
                          composite |-> composite,
                          signal |-> score_to_signal(composite.score)]]
    /\ UNCHANGED <<adapter, job, market, api>>

ScoreToSignal ==
    /\ scoring.call = "score_to_signal"
    /\ ~scoring.done
    /\ scoring' = [scoring EXCEPT
          !.done = TRUE,
          !.result = [NoScores EXCEPT
                         !.signal = score_to_signal(scoring.score)]]
    /\ UNCHANGED <<adapter, job, market, api>>

NextScoring ==
    \/ ComputeScore
    \/ ScoreToSignal

SpecScoring == InitScoring /\ [][NextScoring]_vars

\* ======================================================= the analysis services
\* build_recommendations (analysis/pipeline.py) and run_backtest
\* (backtesting/engine.py) use the provider through the MarketDataProvider
\* contract (base.py:45-70): each call returns its answer or raises.  The
\* coroutine runs from one await to the next without interruption.

\* the symbols the provider knows, as get_quote spells them (massive.py:172)
UpperSymbols == {<<"A">>, <<"B">>, <<"A", "B">>}

\* the symbols lists of a request, as rankings.py:40 splits them
RequestSymbols ==
    {<< <<"a">> >>,
     << <<"a">>, <<"B">> >>,
     << <<"b">>, <<"a", "b">>, <<"A">> >>,
     << <<"B">>, <<"a">>, <<"b">> >>}

\* limit: int = Query(10, ge=1, le=100) (rankings.py:36)
Limits == {1, 2, 10}

\* what list_tickers returns: the tickers of the pages it was served
Listings ==
    {<<>>} \cup
    {AppendTickers(<<>>, page) : page \in ResultPages} \cup
    {AppendTickers(AppendTickers(<<>>, p), q) : p, q \in ResultPages}

GoodFundamentals ==
    [pe |-> {10 * Point}, ps |-> {2 * Point}, roe |-> {20 * Point},
     debt_to_equity |-> {}, growth_5y |-> {12 * Point},
     profit_margin |-> {20 * Point}, beta |-> {(9 * Point) \div 10},
     dividend_yield |-> {3 * Point}]

WeakFrame ==
    [empty |-> FALSE, above |-> {}, rsi_last |-> 80 * Point,
     atr_pct |-> {6 * Point}]

\* what the provider holds for one symbol: its quote if any (price and
\* todaysChangePerc), its fundamentals if any, and its history, given as the
\* DataFrame candles_to_dataframe and the indicators make of it
SymbolData ==
    {[quote |-> {}, fundamentals |-> {GoodFundamentals},
      history |-> FullFrame],
     [quote |-> {[price |-> 100, change_pct |-> 0]}, fundamentals |-> {},
      history |-> EmptyFrame],
     [quote |-> {[price |-> 200, change_pct |-> 7 * Point]},
      fundamentals |-> {GoodFundamentals}, history |-> FullFrame],
     [quote |-> {[price |-> 50, change_pct |-> -9 * Point]},
      fundamentals |-> {}, history |-> WeakFrame]}

\* SnapshotRequest.normalized_symbols (analysis/models.py:28-30) and
\* BacktestRequest.normalized_symbols (backtesting/models.py:15-16),
\* without the upper-casing
normalized_symbols_verbatim(symbols) == symbols

normalized_symbols(symbols) == [n \in DOMAIN symbols |-> Upper(symbols[n])]

\* MassiveProvider.get_quote as the pipeline sees it (massive.py:171-197)
ProviderQuote(symbol) ==
    LET held == market.data[Upper(symbol)].quote
    IN  {[symbol |-> Upper(symbol), price |-> q.price,
          change_pct |-> q.change_pct] : q \in held}

\* {quote.symbol: quote for quote in quotes}: a later quote replaces an
\* earlier one of the same symbol
SymbolToQuote(quotes) ==
    [s \in {quotes[n].symbol : n \in DOMAIN quotes} |->
        quotes[CHOOSE n \in DOMAIN quotes :
                  /\ quotes[n].symbol = s
                  /\ \A m \in DOMAIN quotes :
                        quotes[m].symbol = s => m <= n]]

\* dict.get(key): the value or None
DictGet(d, key) == IF key \in DOMAIN d THEN {d[key]} ELSE {}

MinOf(S) == CHOOSE x \in S : \A y \in S : x <= y

\* Recommendation(...) with the price left at zero
MakeRecommendationNoPrice(entry, profile) ==
    LET composite == compute_score(entry, profile)
    IN  [symbol |-> entry.quote.symbol, price |-> 0,
         change_pct |-> entry.quote.change_pct, score |-> composite.score,
         signal |-> score_to_signal(composite.score),
         factors |-> composite.factors, profile |-> profile]

\* pipeline.py:41-55
MakeRecommendation(entry, profile) ==
    LET composite == compute_score(entry, profile)
    IN  [symbol |-> entry.quote.symbol, price |-> entry.quote.price,
         change_pct |-> entry.quote.change_pct, score |-> composite.score,
         signal |-> score_to_signal(composite.score),
         factors |-> composite.factors, profile |-> profile]

\* a sort that puts an element in front of those of equal key
InsertTiesFirst(sorted, n, key) ==
    SelectSeq(sorted, LAMBDA m : key[m] > key[n]) \o <<n>> \o
    SelectSeq(sorted, LAMBDA m : key[m] <= key[n])

\* list.sort(key=..., reverse=True) is stable: element n goes behind every
\* element before it whose key is not smaller
InsertDescending(sorted, n, key) ==
    SelectSeq(sorted, LAMBDA m : key[m] >= key[n]) \o <<n>> \o
    SelectSeq(sorted, LAMBDA m : key[m] < key[n])

\* the order list.sort leaves the first n elements in, as their old indices
RECURSIVE SortOrder(_, _)
SortOrder(key, n) ==
    IF n = 0 THEN <<>>
    ELSE InsertDescending(SortOrder(key, n - 1), n, key)

NoResult == [returned |-> FALSE, value |-> <<>>]

\* an error that is swallowed: the invocation returns what it has
JobRaiseSwallowed(j, call) ==
    [j EXCEPT !.pc = "returned", !.error = call,
              !.result = [returned |-> TRUE, value |-> <<>>]]

\* the invocation ends with the provider's error
JobRaise(j, call) ==
    [j EXCEPT !.pc = "raised", !.error = call, !.result = NoResult]

\* pipeline.py:39-58: the recommendations of the entries, sorted
ReturnRecommendations(j) ==
    LET recommendations ==
            [n \in DOMAIN j.entries |->
                MakeRecommendation(j.entries[n], j.request.profile)]
        order == SortOrder([n \in DOMAIN recommendations |->
                               recommendations[n].score],
                           Len(recommendations))
    IN  [j EXCEPT !.pc = "returned",
                  !.order = [n \in DOMAIN order |-> j.entry_pos[order[n]]],
                  !.result = [returned |-> TRUE,
                              value |-> [n \in DOMAIN order |->
                                            recommendations[order[n]]]]]

\* the for loop of pipeline.py:25-37 from symbol i on, up to its next await
EntriesLoop(j, i) ==
    LET rest == {n \in i..Len(j.symbols) :
                    DictGet(j.symbol_to_quote, j.symbols[n]) # {}}
    IN  IF rest = {} THEN ReturnRecommendations(j)
        ELSE [j EXCEPT !.pc = "get_fundamentals", !.i = MinOf(rest)]

\* pipeline.py:22 once get_quotes has returned
AfterQuotes(j) ==
    EntriesLoop([j EXCEPT !.symbol_to_quote = SymbolToQuote(j.quotes)], 1)

\* pipeline.py:21: get_quotes (massive.py:199-205) awaits one get_quote per
\* symbol and returns at once when there is none
GetQuotes(j) ==
    IF j.symbols = <<>> THEN AfterQuotes(j)
    ELSE [j EXCEPT !.pc = "get_quote", !.k = 1]

Logged(j, call, symbol) ==
    [j EXCEPT !.log = Append(@, [call |-> call, symbol |-> symbol])]

NewJob(call, request) ==
    [call |-> call, request |-> request, pc |-> "called", symbols |-> <<>>,
     k |-> 0, quotes |-> <<>>, symbol_to_quote |-> <<>>, i |-> 0,
     fundamentals |-> {}, entries |-> <<>>, entry_pos |-> <<>>,
     order |-> <<>>, equity_values |-> <<>>, log |-> <<>>, error |-> "none",
     result |-> NoResult]

\* pipeline.py:14-21 up to the first await
BuildRecommendations ==
    /\ job.call = "build_recommendations"
    /\ job.pc = "called"
    /\ LET symbols == normalized_symbols(job.request.symbols)
       IN  job' = IF symbols = <<>>
                  THEN [job EXCEPT !.pc = "list_tickers"]
                  ELSE GetQuotes([job EXCEPT
                           !.symbols = FirstN(symbols, job.request.limit)])
    /\ UNCHANGED <<adapter, scoring, market, api>>

\* pipeline.py:16-21: list_tickers returns
ListTickersReturns ==
    /\ job.call = "build_recommendations"
    /\ job.pc = "list_tickers"
    /\ LET tickers == FirstN(market.listing, job.request.limit)
       IN  job' = GetQuotes([Logged(job, "list_tickers", <<>>) EXCEPT
                     !.symbols = [n \in DOMAIN tickers |->
                                     tickers[n].symbol]])
    /\ UNCHANGED <<adapter, scoring, market, api>>

\* massive.py:201-205: one get_quote of get_quotes returns
GetQuoteReturns ==
    /\ job.call = "build_recommendations"
    /\ job.pc = "get_quote"
    /\ LET symbol == job.symbols[job.k]
           quote == ProviderQuote(symbol)
           j == [Logged(job, "get_quote", symbol) EXCEPT
                    !.quotes = IF quote # {}
                               THEN Append(@, CHOOSE q \in quote : TRUE)
                               ELSE @]
       IN  job' = IF job.k = Len(job.symbols) THEN AfterQuotes(j)
                  ELSE [j EXCEPT !.k = @ + 1]
    /\ UNCHANGED <<adapter, scoring, market, api>>

\* pipeline.py:29: get_fundamentals returns
GetFundamentalsReturns ==
    /\ job.call = "build_recommendations"
    /\ job.pc = "get_fundamentals"
    /\ LET symbol == job.symbols[job.i]
       IN  job' = [Logged(job, "get_fundamentals", symbol) EXCEPT
                      !.pc = "get_history",
                      !.fundamentals = market.data[Upper(symbol)].fundamentals]
    /\ UNCHANGED <<adapter, scoring, market, api>>

\* pipeline.py:30-37: get_history returns and the entry is appended
GetHistoryReturns ==
    /\ job.call = "build_recommendations"
    /\ job.pc = "get_history"
    /\ LET symbol == job.symbols[job.i]
           quote == DictGet(job.symbol_to_quote, symbol)
           entry == [quote |-> CHOOSE q \in quote : TRUE,
                     fundamentals |-> job.fundamentals,
                     history |-> market.data[Upper(symbol)].history]
       IN  job' = EntriesLoop([Logged(job, "get_history", symbol) EXCEPT
                                  !.entries = Append(@, entry),
                                  !.entry_pos = Append(@, job.i)],
                              job.i + 1)
    /\ UNCHANGED <<adapter, scoring, market, api>>

\* ------------------------------------------------------------- run_backtest
\* float("inf"): what a division of a non-zero float by 0.0 gives in pandas
Inf == 100000000

Candle(timestamp, close) == [timestamp |-> timestamp, close |-> close]

\* the candle lists get_history returns; a close the upstream left out is
\* 0.0 (massive.py:220)
Histories ==
    {<<>>,
     <<Candle(1, 100)>>,
     <<Candle(1, 100), Candle(2, 110)>>,
     <<Candle(4, 0), Candle(5, 0)>>,
     <<Candle(2, 110), Candle(1, 100), Candle(3, 0)>>,
     <<Candle(1, 0), Candle(2, 0), Candle(3, 100)>>,
     <<Candle(3, 100), Candle(6, 0)>>}

\* candles_to_dataframe (indicators.py:11-29): the rows by timestamp;
\* sort_values leaves rows that are in order as they are
RECURSIVE candles_to_dataframe(_)
candles_to_dataframe(candles) ==
    IF candles = <<>> THEN <<>>
    ELSE IF \A n \in 1..(Len(candles) - 1) :
               candles[n].timestamp <= candles[n + 1].timestamp
    THEN candles
    ELSE LET first == CHOOSE n \in DOMAIN candles :
                         \A m \in DOMAIN candles :
                            candles[n].timestamp <= candles[m].timestamp
             rest == [m \in 1..(Len(candles) - 1) |->
                         IF m < first THEN candles[m] ELSE candles[m + 1]]
         IN  <<candles[first]>> \o candles_to_dataframe(rest)

\* Daily returns are counted in millionths: a rise of a close of 100.000
\* by 0.001 is a return of 10.
ReturnUnit == 1000000

\* a change of close that takes 0.0 / 0.0 for no change
PctChangeZeroOverZero(previous, close) ==
    IF previous = 0
    THEN IF close = 0 THEN 0 ELSE Inf
    ELSE ((close - previous) * ReturnUnit) \div previous

\* close / previous - 1 in floats, as a fraction of ReturnUnit
PctChange(previous, close) ==
    IF previous = 0
    THEN IF close = 0 THEN NaN ELSE Inf
    ELSE ((close - previous) * ReturnUnit) \div previous

\* df["close"].pct_change(): the first row has no previous close
pct_change(df) ==
    [n \in DOMAIN df |->
        [timestamp |-> df[n].timestamp,
         value |-> IF n = 1 THEN NaN
                   ELSE PctChange(df[n - 1].close, df[n].close)]]

\* a dropna that drops nothing
DropNaKeepAll(series) == series

\* Series.dropna()
DropNa(series) == SelectSeq(series, LAMBDA row : row.value # NaN)

Timestamps(series) == {series[n].timestamp : n \in DOMAIN series}

\* engine.py:13-14; the rate in units of ReturnUnit
TRADING_DAYS == 252
RISK_FREE_RATE == 5000

\* Of a metric, a cumulative return and a portfolio return the model keeps
\* the sign: -1, 0 or 1, and Unknown where the signs of the operands do not
\* decide it or an operand is inf or nan.
Unknown == 2

Sign(x) == IF x > 0 THEN 1 ELSE IF x < 0 THEN -1 ELSE 0

\* the sign of a sum, or of a product of factors 1 + x less 1, of terms
\* with the signs S
JointSign(S) ==
    IF S \subseteq {0} THEN 0
    ELSE IF S \subseteq {0, 1} THEN 1
    ELSE IF S \subseteq {0, -1} THEN -1
    ELSE Unknown

\* the signs of the values of a series
Signs(series) ==
    [n \in DOMAIN series |->
        [timestamp |-> series[n].timestamp,
         sign |-> IF series[n].value \in {NaN, Inf} THEN Unknown
                  ELSE Sign(series[n].value)]]

\* (1 + series).cumprod() - 1 (engine.py:65, 88 and 95)
CumulativeReturns(series) ==
    [n \in DOMAIN series |->
        [timestamp |-> series[n].timestamp,
         sign |-> JointSign({series[k].sign : k \in 1..n})]]

\* _cagr (engine.py:17-27) of a series of cumulative returns: for a base
\* 1 + total_return >= 0 the power less 1 has the sign of total_return
_cagr(series) ==
    IF series = <<>> THEN 0
    ELSE IF Len(series) <= 1 THEN 0
    ELSE series[Len(series)].sign

\* the sum of the values of rows lo..hi of a series
RECURSIVE SumValues(_, _, _)
SumValues(series, lo, hi) ==
    IF lo > hi THEN 0
    ELSE IF lo = hi THEN series[lo].value
    ELSE LET mid == (lo + hi) \div 2
         IN  SumValues(series, lo, mid) + SumValues(series, mid + 1, hi)

\* _sharpe with the mean of the returns for the mean of the excess
_sharpe_without_risk_free(returns) ==
    IF returns = <<>> THEN 0
    ELSE IF Len(returns) < 2 THEN 0
    ELSE IF \E n \in DOMAIN returns : returns[n].value \in {NaN, Inf}
    THEN Unknown
    ELSE IF \A n \in DOMAIN returns : returns[n].value = returns[1].value
    THEN 0
    ELSE Sign(SumValues(returns, 1, Len(returns)))

\* _sharpe (engine.py:30-37) of the daily returns.  The std of one value is
\* nan, that of equal values 0; otherwise the ratio has the sign of the
\* mean excess, which is that of 252 * sum(returns) - n * 0.005.
_sharpe(returns) ==
    IF returns = <<>> THEN 0
    ELSE IF Len(returns) < 2 THEN 0
    ELSE IF \E n \in DOMAIN returns : returns[n].value \in {NaN, Inf}
    THEN Unknown
    ELSE IF \A n \in DOMAIN returns : returns[n].value = returns[1].value
    THEN 0
    ELSE Sign(TRADING_DAYS * SumValues(returns, 1, Len(returns))
              - Len(returns) * RISK_FREE_RATE)

\* _max_drawdown (engine.py:40-45) of a series of returns: the running
\* product falls below its running maximum where a return is negative
_max_drawdown(series) ==
    LET S == {series[n].sign : n \in DOMAIN series}
    IN  IF series = <<>> THEN 0
        ELSE IF -1 \in S THEN -1
        ELSE IF Unknown \in S THEN Unknown
        ELSE 0

\* the timestamps S in ascending order
Ascending(S) ==
    IF S = {} THEN <<>>
    ELSE LET last == CHOOSE x \in S : \A y \in S : y <= x
         IN  SelectSeq([t \in 1..last |-> t], LAMBDA t : t \in S)

\* one column of pd.concat(...).fillna(method="ffill").fillna(0.0) at index
\* t: the value of the series there, else its last earlier one, else 0.0.
\* The rows of a series are in the order of time.
Aligned(series, t) ==
    LET earlier == {n \in DOMAIN series : series[n].timestamp <= t}
    IN  IF earlier = {} THEN 0 ELSE series[Cardinality(earlier)].sign

\* aligned.mean(axis=1) (engine.py:86-87)
PortfolioReturns(equity_values) ==
    LET index == Ascending(UNION {Timestamps(equity_values[n]) :
                                     n \in DOMAIN equity_values})
    IN  [k \in DOMAIN index |->
            [timestamp |-> index[k],
             sign |-> JointSign({Aligned(equity_values[n], index[k]) :
                                    n \in DOMAIN equity_values})]]

\* a dict is the set of its items
Item(key, value) == [key |-> key, value |-> value]

\* engine.py:77-106.  The equity curve has one point per timestamp of the
\* concatenated series.  The size of the portfolio returns is not kept, so
\* that only an undefined std decides the Sharpe ratio of the portfolio.
ReturnBacktest(j) ==
    LET portfolio_returns == PortfolioReturns(j.equity_values)
        portfolio_equity == CumulativeReturns(portfolio_returns)
    IN  [j EXCEPT
            !.pc = "returned",
            !.result =
                [returned |-> TRUE,
                 value |->
                    IF j.equity_values = <<>>
                    THEN [symbols |-> <<>>, equity_curve |-> {},
                          metrics |-> {}]
                    ELSE [symbols |-> j.entries,
                          equity_curve |-> Timestamps(portfolio_equity),
                          metrics |->
                              {Item("cagr", _cagr(portfolio_equity)),
                               Item("sharpe",
                                    IF Len(portfolio_returns) < 2 THEN 0
                                    ELSE Unknown),
                               Item("max_drawdown",
                                    _max_drawdown(portfolio_returns))}]]]

\* engine.py:52-57 up to the first await
RunBacktest ==
    /\ job.call = "run_backtest"
    /\ job.pc = "called"
    /\ LET symbols == normalized_symbols(job.request.symbols)
           j == [job EXCEPT !.symbols = symbols]
       IN  job' = IF symbols = <<>> THEN ReturnBacktest(j)
                  ELSE [j EXCEPT !.pc = "get_history", !.i = 1]
    /\ UNCHANGED <<adapter, scoring, market, api>>

\* engine.py:57-75: get_history returns and the symbol is kept or skipped
BacktestHistoryReturns ==
    /\ job.call = "run_backtest"
    /\ job.pc = "get_history"
    /\ LET symbol == job.symbols[job.i]
           candles == market.data[Upper(symbol)].history
           df == candles_to_dataframe(candles)
           returns == DropNa(pct_change(df))
           logged == Logged(job, "get_history", symbol)
           cumulative_returns == CumulativeReturns(Signs(returns))
           j == IF df = <<>> \/ returns = <<>> THEN logged
                ELSE [logged EXCEPT
                         !.equity_values = Append(@, cumulative_returns),
                         !.entries = Append(@,
                             [symbol |-> symbol,
                              cagr |-> _cagr(cumulative_returns),
                              sharpe |-> _sharpe(returns),
                              max_drawdown |->
                                  _max_drawdown(Signs(returns))]),
                         !.entry_pos = Append(@, job.i)]
       IN  job' = IF job.i = Len(job.symbols) THEN ReturnBacktest(j)
                  ELSE [j EXCEPT !.i = @ + 1]
    /\ UNCHANGED <<adapter, scoring, market, api>>

\* the provider call the invocation awaits raises
ProviderRaises ==
    /\ job.pc \in {"list_tickers", "get_quote", "get_fundamentals",
                   "get_history"}
    /\ job' = JobRaise(job, job.pc)
    /\ UNCHANGED <<adapter, scoring, market, api>>

InitAnalysis ==
    /\ AdapterUnused
    /\ api = <<>>
    /\ scoring = <<>>
    /\ \/ \E data \in [UpperSymbols -> SymbolData] :
          \E profile \in RiskProfiles : \E limit \in Limits :
             \/ \E symbols \in RequestSymbols :
                   /\ market = [listing |-> <<>>, data |-> data]
                   /\ job = NewJob("build_recommendations",
                                   [symbols |-> symbols, profile |-> profile,
                                    limit |-> limit])
             \/ \E listing \in Listings :
                   /\ market = [listing |-> listing, data |-> data]
                   /\ job = NewJob("build_recommendations",
                                   [symbols |-> <<>>, profile |-> profile,
                                    limit |-> limit])
       \/ \E history \in [UpperSymbols -> Histories] :
          \E symbols \in RequestSymbols :
             /\ market = [listing |-> <<>>,
                          data |-> [s \in UpperSymbols |->
                                       [quote |-> {}, fundamentals |-> {},
                                        history |-> history[s]]]]
             /\ job = NewJob("run_backtest",
                             [symbols |-> symbols, period |-> "1y",
                              profile |-> "balanserad"])

NextAnalysis ==
    \/ BuildRecommendations
    \/ ListTickersReturns
    \/ GetQuoteReturns
    \/ GetFundamentalsReturns
    \/ GetHistoryReturns
    \/ RunBacktest
    \/ BacktestHistoryReturns
    \/ ProviderRaises

SpecAnalysis == InitAnalysis /\ [][NextAnalysis]_vars

\* ------------------------------------------------------------ SpecBacktest
\* run_backtest on histories of 200 daily candles, as the scenario of
\* test_backtesting_engine.py:17-32 builds them, and on short ones.
CandleCount == 200

Daily(Close(_)) == [day \in 1..CandleCount |-> Candle(day, Close(day))]

\* closes in thousandths: 100.0 * (1 + 0.001 * day) is 100000 + 100 * day
MetricHistories ==
    {Daily(LAMBDA day : 100000 + 100 * day),
     Daily(LAMBDA day : 100000 + day + (IF day > 100 THEN day - 100 ELSE 0)),
     Daily(LAMBDA day : 100000 + 100 * day + 50 * (day % 2)),
     Daily(LAMBDA day : 200000 - 100 * day),
     Daily(LAMBDA day : 100000 + 100 * day - (IF day = 100 THEN 150 ELSE 0)),
     <<>>,
     <<Candle(1, 100000), Candle(2, 100100)>>}

InitBacktest ==
    /\ AdapterUnused
    /\ api = <<>>
    /\ scoring = <<>>
    /\ \E history \in [UpperSymbols -> MetricHistories] :
       \E symbols \in RequestSymbols :
          /\ market = [listing |-> <<>>,
                       data |-> [s \in UpperSymbols |->
                                    [quote |-> {}, fundamentals |-> {},
                                     history |-> history[s]]]]
          /\ job = NewJob("run_backtest",
                          [symbols |-> symbols, period |-> "1y",
                           profile |-> "balanserad"])

NextBacktest ==
    \/ RunBacktest
    \/ BacktestHistoryReturns
    \/ ProviderRaises

SpecBacktest == InitBacktest /\ [][NextBacktest]_vars

\* =============================================================== alerts API
\* The application of main.py, the routes of api/v1/alerts.py and the
\* InMemoryAlertRepository behind them.

MaxRequests == 3       \* requests and handler calls of one behaviour

HTTP_200_OK == 200
HTTP_201_CREATED == 201
HTTP_204_NO_CONTENT == 204
HTTP_404_NOT_FOUND == 404

\* no answer at all: there is no application to ask
NoAnswer == 0

AlertSymbols == {"AAA", "BBB"}

\* AlertRule (models.py:16-21): a price condition
AlertRules ==
    {[price |-> [operator |-> ">=", target |-> 120]],
     [price |-> [operator |-> "<=", target |-> 80]]}

\* AlertCreate (models.py:24-31): channels has the default [in_app]
AlertCreates ==
    [symbol : AlertSymbols, channels : {<<"in_app">>, <<"email">>},
     rule : AlertRules]

\* AlertRuleUpdate (models.py:39-41): an optional field is the set of its
\* value, empty for None
AlertRuleUpdates ==
    [rule : {{}} \cup {{rule} : rule \in AlertRules},
     active : {{}, {TRUE}, {FALSE}}]

\* AlertRead (models.py:34-36) of a payload: active defaults to True
AlertRead(id, payload) ==
    [id |-> id, symbol |-> payload.symbol, channels |-> payload.channels,
     rule |-> payload.rule, active |-> TRUE]

\* the places of the alert alert_id in the dict _alerts
PlacesOf(alerts, alert_id) == {n \in DOMAIN alerts : alerts[n].id = alert_id}

Answer(status_code, body) == [status_code |-> status_code, body |-> body]

\* list_alerts (alerts.py:11-13, repository.py:17-19)
list_alerts(alerts) ==
    [alerts |-> alerts, answer |-> Answer(HTTP_200_OK, alerts)]

\* create_alert (alerts.py:16-23, repository.py:21-25): id is a new uuid4
create_alert(alerts, id, payload) ==
    LET alert == AlertRead(id, payload)
    IN  [alerts |-> Append(alerts, alert),
         answer |-> Answer(HTTP_201_CREATED, alert)]

\* update_alert, the active field taken from the payload or from the alert
\* in store, whichever the caller passes
UpdatedAlert(existing, payload, active) ==
    [existing EXCEPT
        !.rule = IF payload.rule # {} THEN CHOOSE rule \in payload.rule : TRUE
                 ELSE @,
        !.active = active]

\* update_alert (alerts.py:26-35, repository.py:27-38)
update_alert(alerts, alert_id, payload) ==
    IF PlacesOf(alerts, alert_id) = {}
    THEN [alerts |-> alerts, answer |-> Answer(HTTP_404_NOT_FOUND, <<>>)]
    ELSE LET n == CHOOSE k \in PlacesOf(alerts, alert_id) : TRUE
             updated == UpdatedAlert(alerts[n], payload,
                                     IF payload.active # {}
                                     THEN TRUE \in payload.active
                                     ELSE alerts[n].active)
         IN  [alerts |-> [alerts EXCEPT ![n] = updated],
              answer |-> Answer(HTTP_200_OK, updated)]

\* delete_alert (alerts.py:38-42, repository.py:40-42)
delete_alert(alerts, alert_id) ==
    IF PlacesOf(alerts, alert_id) = {}
    THEN [alerts |-> alerts, answer |-> Answer(HTTP_404_NOT_FOUND, <<>>)]
    ELSE [alerts |-> SelectSeq(alerts, LAMBDA a : a.id # alert_id),
          answer |-> Answer(HTTP_204_NO_CONTENT, <<>>)]

\* the requests of a method: the alert id and the payload where they have
\* one; ids are the uuids drawn so far
Gets == [method : {"GET"}, alert_id : {0}, payload : {<<>>}]
Posts == [method : {"POST"}, alert_id : {0}, payload : AlertCreates]
Patches(ids) ==
    [method : {"PATCH"}, alert_id : 1..ids, payload : AlertRuleUpdates]
Deletes(ids) == [method : {"DELETE"}, alert_id : 1..ids, payload : {<<>>}]

\* the route function of alerts.router the request is for
Handle(alerts, new_id, request) ==
    CASE request.method = "GET" -> list_alerts(alerts)
      [] request.method = "POST" ->
            create_alert(alerts, new_id, request.payload)
      [] request.method = "PATCH" ->
            update_alert(alerts, request.alert_id, request.payload)
      [] request.method = "DELETE" -> delete_alert(alerts, request.alert_id)

\* the routers create_app includes under /health and /v1 (main.py:49-52)
IncludedRouters == {"health", "market", "rankings", "backtests"}

\* the import of src.app.main (test_alerts_api.py:4): the body of create_app
\* is indented by four spaces up to line 39 and by two from line 41 on, which
\* the compiler refuses
ImportOutcome == "IndentationError"

\* what a client of the application is answered on /v1/alerts: nothing
\* where there is no application, Not Found where no included router has the
\* path, else the answer of the route function
Serve(app, alerts, new_id, request) ==
    IF app # "created"
    THEN [alerts |-> alerts, answer |-> Answer(NoAnswer, <<>>)]
    ELSE IF "alerts" \notin IncludedRouters
    THEN [alerts |-> alerts, answer |-> Answer(HTTP_404_NOT_FOUND, <<>>)]
    ELSE Handle(alerts, new_id, request)

Answered(via, request, served) ==
    api' = [api EXCEPT
               !.alerts = served.alerts,
               !.ids = IF Len(served.alerts) > Len(api.alerts) THEN @ + 1
                       ELSE @,
               !.requests_left = @ - 1,
               !.last = [via |-> via, request |-> request,
                         answer |-> served.answer, before |-> api.alerts]]

Ask(via, request) ==
    Answered(via, request,
             IF via = "application"
             THEN Serve(api.app, api.alerts, api.ids + 1, request)
             ELSE Handle(api.alerts, api.ids + 1, request))

\* from src.app.main import app (test_alerts_api.py:4)
ImportMain ==
    /\ api # <<>>
    /\ api.app = "unloaded"
    /\ api' = [api EXCEPT !.app = ImportOutcome]
    /\ UNCHANGED <<adapter, scoring, job, market>>

\* a request of the test client to /v1/alerts of the application
ClientRequest ==
    /\ api # <<>>
    /\ api.app # "unloaded"
    /\ api.requests_left > 0
    /\ \/ \E request \in Gets : Ask("application", request)
       \/ \E request \in Posts : Ask("application", request)
       \/ \E request \in Patches(api.ids) : Ask("application", request)
       \/ \E request \in Deletes(api.ids) : Ask("application", request)
    /\ UNCHANGED <<adapter, scoring, job, market>>

\* a route function of alerts.router called by whatever includes the router
RouterCall ==
    /\ api # <<>>
    /\ api.requests_left > 0
    /\ \/ \E request \in Gets : Ask("router", request)
       \/ \E request \in Posts : Ask("router", request)
       \/ \E request \in Patches(api.ids) : Ask("router", request)
       \/ \E request \in Deletes(api.ids) : Ask("router", request)
    /\ UNCHANGED <<adapter, scoring, job, market>>

NoRequest == [via |-> "none", request |-> <<>>,
              answer |-> Answer(NoAnswer, <<>>), before |-> <<>>]

InitAlerts ==
    /\ AdapterUnused
    /\ scoring = <<>>
    /\ job = <<>>
    /\ market = <<>>
    /\ api = [app |-> "unloaded", alerts |-> <<>>, ids |-> 0,
              requests_left |-> MaxRequests, last |-> NoRequest]

NextAlerts ==
    \/ ImportMain
    \/ ClientRequest
    \/ RouterCall

SpecAlerts == InitAlerts /\ [][NextAlerts]_vars


\* =================================================================== claims

\* C1: any two consecutive dispatches through the one RateLimiter are at
\* least min_interval apart, whatever the interleaving of the callers of
\* wait(): at most one caller is between its wait and its timestamp update,
\* and it holds the lock.
C1_DispatchesPaced ==
    /\ sent.n >= 2 => sent.gap >= rate_limiter.min_interval
    /\ Cardinality({c \in Callers : fr[c].pc = "rl_sleep"}) <= 1
    /\ \A c \in Callers : fr[c].pc = "rl_sleep" => rate_limiter.lock = c

\* two requests went out while another caller queues behind the lock
C1_Witness ==
    /\ sent.n >= 2
    /\ \E c \in Callers : fr[c].pc = "rl_lock"
    /\ rate_limiter.lock # "free"

\* C2: a TTLCache.get made before the TTL of the last set of its key has
\* elapsed returns exactly the value set; one made after it has elapsed
\* returns None and leaves no entry for the key; no value is returned past
\* its expiry, and none for a key never set.
C2_CacheReadWithinTtl ==
    /\ probe.set = {} => probe.got = {}
    /\ \A x \in probe.set :
          /\ x.age < QUOTE_TTL_SECONDS => probe.got = {x.value}
          /\ x.age > QUOTE_TTL_SECONDS => probe.got = {} /\ ~probe.kept
          /\ probe.got # {} => /\ x.age <= QUOTE_TTL_SECONDS
                               /\ probe.got = {x.value}

\* a get found the entry expired and removed it
C2_Witness ==
    /\ probe.got = {}
    /\ ~probe.kept
    /\ \E x \in probe.set : x.age > QUOTE_TTL_SECONDS

\* C3 (as stated): once a get_quote call has returned a quote, every later
\* get_quote for the symbol made within 30 s of that return issues no
\* request and returns that same quote.
C3_AnyReturnedQuoteRepeats ==
    \A c \in Callers : \A w \in fr[c].expect :
        /\ fr[c].pc = "done"
        /\ fr[c].total_dispatches = 0
        /\ fr[c].quote = {w.quote}

\* C3 (amended): once a get_quote call has fetched a quote upstream and
\* returned it, every later get_quote for the symbol, in any letter case,
\* made within 30 s of that return issues no request and returns the quote
\* last fetched for the symbol.
C3_FetchedQuoteServed ==
    \A c \in Callers : \A w \in fr[c].expect :
        ~w.hit =>
            /\ fr[c].pc = "done"
            /\ fr[c].outcome = "returned"
            /\ fr[c].hit
            /\ fr[c].total_dispatches = 0
            /\ fr[c].quote # {}
            /\ fr[c].quote = fr[c].latest

\* a call in lower case, some time after the fetch, answered from the cache
C3_Witness ==
    \E c \in Callers : \E w \in fr[c].expect :
        /\ ~w.hit
        /\ w.age > 0
        /\ fr[c].arg # fr[c].symbol
        /\ fr[c].hit
        /\ fr[c].quote = {w.quote}

\* C4: a fetch answered by nothing but 5xx makes exactly 3 attempts and then
\* raises the server error; no fetch makes a 4th attempt, and such a fetch
\* returns no value.
C4_ThreeAttemptsOn5xx ==
    \A c \in Callers :
        /\ fr[c].dispatches <= DEFAULT_MAX_RETRIES
        /\ fr[c].only_5xx /\ fr[c].last_resp = "5xx" =>
              /\ fr[c].outcome # "returned"
              /\ fr[c].pc = "done" =>
                    /\ fr[c].dispatches = DEFAULT_MAX_RETRIES
                    /\ fr[c].outcome = "raised"
                    /\ fr[c].error = "ServerError"

C4_Witness ==
    \E c \in Callers :
        /\ fr[c].pc = "done"
        /\ fr[c].only_5xx
        /\ fr[c].last_resp = "5xx"
        /\ fr[c].dispatches = DEFAULT_MAX_RETRIES
        /\ fr[c].error = "ServerError"

\* the error the claim C5 expects for each kind of transient failure
TransientError(kind) ==
    CASE kind = "RequestError" -> "RequestError"
      [] kind = "5xx" -> "ServerError"
      [] OTHER -> "RateLimited"

\* C5: when the retry loop gives up after the wait that follows a transient
\* failure (all attempts were transient failures), the fetch raises the
\* error of that last failure.
C5_LastTransientErrorRaised ==
    [][\A c \in Callers :
          fr[c].pc \in {"backoff", "backoff_5xx"} /\ fr'[c].pc = "done" =>
              /\ fr'[c].outcome = "raised"
              /\ fr'[c].error = TransientError(fr[c].last_resp)]_vars

\* C6: after a 429 the adapter sleeps max(Retry-After, the interval the
\* instance was constructed with).
C6_WaitsConfiguredInterval ==
    \A c \in Callers :
        fr[c].pc = "backoff" /\ fr[c].last_resp = "429" =>
            fr[c].sleep_for = Max(fr[c].retry_after, rate_limiter.min_interval)

\* the answers C7 is about
FatalAnswers == ClientErrors \cup {"nonjson", "nonobject"}

\* C7: a 4xx other than 429, a body that is no JSON or a JSON body that is
\* no object ends the fetch at once with an error: the step that receives
\* it finishes the operation without a sleep and leaves both caches as they
\* are, and no request, wait or cache write of the operation follows.
C7_FatalAnswerFailsAtOnce ==
    /\ [](\A c \in Callers :
            fr[c].last_resp \in FatalAnswers =>
                /\ fr[c].pc = "done"
                /\ fr[c].outcome = "raised"
                /\ fr[c].error # "none"
                /\ fr[c].wake_in = 0
                /\ fr[c].sleep_for = 0
                /\ fr[c].writes = 0)
    /\ [][\A c \in Callers :
            fr[c].pc = "http" /\ fr'[c].pc # "http"
                /\ fr'[c].last_resp \in FatalAnswers =>
                /\ fr'[c].pc = "done"
                /\ fr'[c].total_dispatches = fr[c].total_dispatches
                /\ quote_cache' = quote_cache
                /\ universe_cache' = universe_cache]_vars

\* the second page of list_tickers is no JSON object: nothing is cached
C7_Witness ==
    \E c \in Callers :
        /\ fr[c].last_resp = "nonobject"
        /\ fr[c].op = "list_tickers"
        /\ Len(fr[c].pages) >= 1
        /\ fr[c].pc = "done"
        /\ universe_cache = {}

\* what list_tickers is to make of each item of RawItems
NormalTickers ==
    <<[symbol |-> <<"A", "B">>, name |-> "Alpha", market |-> "stocks",
       exchange |-> "None", currency |-> {<<"B", "A">>}],
      [symbol |-> <<"B">>, name |-> "None", market |-> "stocks",
       exchange |-> "XNYS", currency |-> {}],
      [symbol |-> <<"A">>, name |-> "Alef", market |-> "None",
       exchange |-> "None", currency |-> {}]>>

NormalPage(results) ==
    [i \in DOMAIN results |->
        NormalTickers[CHOOSE k \in DOMAIN RawItems : RawItems[k] = results[i]]]

RECURSIVE Concatenation(_)
Concatenation(pages) ==
    IF pages = <<>> THEN <<>>
    ELSE NormalPage(Head(pages)) \o Concatenation(Tail(pages))

\* C8: list_tickers on a cold cache requests page after page while the
\* page names a next one, returns the pages' tickers in page order then
\* in-page order, symbols trimmed and upper-cased, currencies upper-cased,
\* and writes the universe cache exactly once, after the last page: that
\* list.
C8_PagesConcatenatedOnce ==
    \A c \in Callers :
        fr[c].op = "list_tickers" /\ ~fr[c].hit =>
            /\ fr[c].pc # "done" => /\ fr[c].writes = 0
                                    /\ universe_cache = {}
            /\ fr[c].pc \notin {"idle", "done"} =>
                  fr[c].total_dispatches >= Len(fr[c].pages)
            /\ fr[c].outcome = "returned" =>
                  /\ fr[c].next_url \in {"None", ""}
                  /\ fr[c].list = Concatenation(fr[c].pages)
                  /\ fr[c].writes = 1
                  /\ CacheGetValue(universe_cache, "universe") = {fr[c].list}

\* two different pages were fetched and returned as one list
C8_Witness ==
    \E c \in Callers :
        /\ fr[c].op = "list_tickers"
        /\ fr[c].outcome = "returned"
        /\ ~fr[c].hit
        /\ Len(fr[c].pages) = 2
        /\ fr[c].pages[1] # fr[c].pages[2]
        /\ Len(fr[c].list) = 3

\* C9: get_quote for a symbol the upstream reports as unknown (no "ticker"
\* object, or status 404) or without last-trade price and day close returns
\* None and raises nothing.
C9_UnknownSymbolIsAbsent ==
    \A c \in Callers :
        fr[c].op = "get_quote" /\ fr[c].pc = "done" /\ fr[c].nodata =>
            /\ fr[c].outcome = "returned"
            /\ fr[c].quote = {}

\* C10: however often aclose is called on an adapter that owns its client,
\* the transport is released exactly once and the client stays closed; an
\* adapter that does not own it releases nothing.
C10_ReleasedOnce ==
    /\ client.owns_client =>
          /\ client.releases = (IF closes = 0 THEN 0 ELSE 1)
          /\ client.state = (IF closes = 0 THEN "open" ELSE "closed")
    /\ ~client.owns_client => client.releases = 0 /\ client.state = "open"

\* aclose was called a second time
C10_Witness ==
    /\ client.owns_client
    /\ closes >= 2
    /\ client.releases = 1

\* a float within [0, 100]
InScoreRange(x) == x # NaN /\ 0 <= x /\ x <= 100 * Point

\* C11: for every snapshot entry and risk profile, the technical, the
\* fundamental and the risk score and the composite score lie in [0, 100].
C11_ScoresInRange ==
    scoring # <<>> /\ scoring.call = "compute_score" /\ scoring.done =>
        /\ InScoreRange(scoring.result.technical.score)
        /\ InScoreRange(scoring.result.fundamental.score)
        /\ InScoreRange(scoring.result.risk.score)
        /\ InScoreRange(scoring.result.composite.score)

\* a day change of NaN makes the technical score NaN before the clamp
C11_Witness ==
    /\ scoring # <<>> /\ scoring.call = "compute_score" /\ scoring.done
    /\ scoring.entry.quote.change_pct = NaN
    /\ ~scoring.entry.history.empty
    /\ scoring.result.technical.score = 100 * Point

\* C12: score_to_signal answers every float: BUY exactly when it is >= 70,
\* SELL exactly when it is <= 45, HOLD for all strictly between.
C12_SignalThresholds ==
    scoring # <<>> /\ scoring.call = "score_to_signal" /\ scoring.done =>
        LET x == scoring.score
            signal == scoring.result.signal
        IN  /\ signal \in {"BUY", "SELL", "HOLD"}
            /\ signal = "BUY" <=> (x # NaN /\ x >= 70 * Point)
            /\ signal = "SELL" <=> (x # NaN /\ x <= 45 * Point)
            /\ (x # NaN /\ 45 * Point < x /\ x < 70 * Point) =>
                  signal = "HOLD"

\* score 70.0 gives BUY
C12_Witness ==
    /\ scoring # <<>> /\ scoring.call = "score_to_signal" /\ scoring.done
    /\ scoring.score = 70 * Point
    /\ scoring.result.signal = "BUY"

\* C16: the factors of compute_score are at most 3: the first 3 of the
\* technical, then the fundamental, then the risk factors.
C16_FactorsFirstThree ==
    scoring # <<>> /\ scoring.call = "compute_score" /\ scoring.done =>
        LET all == scoring.result.technical.factors
                       \o scoring.result.fundamental.factors
                       \o scoring.result.risk.factors
            factors == scoring.result.composite.factors
        IN  /\ Len(factors) <= 3
            /\ Len(factors) = IF Len(all) < 3 THEN Len(all) ELSE 3
            /\ \A i \in 1..Len(factors) : factors[i] = all[i]

\* one technical, one fundamental and two risk factors: the last is cut
C16_Witness ==
    /\ scoring # <<>> /\ scoring.call = "compute_score" /\ scoring.done
    /\ Len(scoring.result.technical.factors) = 1
    /\ Len(scoring.result.fundamental.factors) = 1
    /\ Len(scoring.result.risk.factors) = 2
    /\ Len(scoring.result.composite.factors) = 3

\* C17: an entry with a quote, no fundamentals and an empty history scores
\* 50 technical, 50 fundamental and 50 composite and signals HOLD, whatever
\* the day change of the quote and the risk profile.
C17_QuoteOnlyIsNeutral ==
    scoring # <<>> /\ scoring.call = "compute_score" /\ scoring.done
        /\ scoring.entry.fundamentals = {}
        /\ scoring.entry.history = EmptyFrame =>
        /\ scoring.result.technical.score = 50 * Point
        /\ scoring.result.fundamental.score = 50 * Point
        /\ scoring.result.composite.score = 50 * Point
        /\ scoring.result.signal = "HOLD"

\* such an entry with a day change of +7 % and the aggressive profile
C17_Witness ==
    /\ scoring # <<>> /\ scoring.call = "compute_score" /\ scoring.done
    /\ scoring.entry.fundamentals = {}
    /\ scoring.entry.history = EmptyFrame
    /\ scoring.entry.quote.change_pct = 7 * Point
    /\ scoring.profile = "aggressiv"
    /\ scoring.result.composite.score = 50 * Point

\* ------------------------------------------------------------ the pipeline
Built == job # <<>> /\ job.call = "build_recommendations"

\* C13: the list build_recommendations returns is in descending order of
\* composite score, and two recommendations of equal score stand in the
\* order their symbols have in the selected symbol list.
C13_SortedStable ==
    (Built /\ job.pc = "returned") =>
        LET value == job.result.value
        IN  \A a, b \in DOMAIN value :
               a < b =>
                  /\ value[a].score >= value[b].score
                  /\ value[a].score = value[b].score =>
                        job.order[a] < job.order[b]

\* a returned list with a tie, in which the sort moved a later symbol forward
C13_Witness ==
    /\ Built
    /\ job.pc = "returned"
    /\ \E a, b \in DOMAIN job.result.value :
          a < b /\ job.result.value[a].score = job.result.value[b].score
    /\ \E a, b \in DOMAIN job.order : a < b /\ job.order[a] > job.order[b]

\* the symbol list the request selects, given what list_tickers returns
SelectedSymbols ==
    LET requested == job.request.symbols
        limit == job.request.limit
        all == IF requested = <<>>
               THEN [n \in DOMAIN market.listing |->
                        market.listing[n].symbol]
               ELSE [n \in DOMAIN requested |-> Upper(requested[n])]
    IN  SubSeq(all, 1, IF limit < Len(all) THEN limit ELSE Len(all))

QuoteCalls == SelectSeq(job.log, LAMBDA e : e.call = "get_quote")

\* C14: build_recommendations processes the first `limit` symbols of
\* list_tickers, in listing order, when the request has no symbols, and
\* otherwise the requested symbols upper-cased and cut to the first `limit`;
\* it calls list_tickers in the first case only, asks quotes for the
\* selected symbols in order, and returns at most `limit` entries.
C14_SymbolSelection ==
    Built =>
        LET requested == job.request.symbols
            listed == \E n \in DOMAIN job.log :
                         job.log[n].call = "list_tickers"
            selecting == job.pc \in {"called", "list_tickers"}
                         \/ job.error = "list_tickers"
        IN  /\ (job.pc = "list_tickers" \/ job.error = "list_tickers"
                  \/ listed) => requested = <<>>
            /\ ~selecting =>
                  /\ job.symbols = SelectedSymbols
                  /\ listed <=> requested = <<>>
                  /\ Len(QuoteCalls) <= Len(SelectedSymbols)
                  /\ \A n \in DOMAIN QuoteCalls :
                        QuoteCalls[n].symbol = SelectedSymbols[n]
            /\ job.pc = "returned" =>
                  /\ Len(QuoteCalls) = Len(SelectedSymbols)
                  /\ Len(job.result.value) <= job.request.limit

\* a request without symbols whose listing is longer than the limit, answered
\* with as many entries as the limit allows
C14_Witness ==
    /\ Built
    /\ job.pc = "returned"
    /\ job.request.symbols = <<>>
    /\ Len(market.listing) > job.request.limit
    /\ Len(job.result.value) = job.request.limit

\* C15: build_recommendations returns a recommendation for a selected symbol
\* exactly if the provider has a quote for it.  For a symbol without quote
\* neither fundamentals nor history are fetched and nothing is returned; a
\* symbol with a quote yields one entry with that quote's price and change.
C15_EntryIffQuote ==
    Built =>
        /\ \A n \in DOMAIN job.log :
              job.log[n].call \in {"get_fundamentals", "get_history"} =>
                 market.data[Upper(job.log[n].symbol)].quote # {}
        /\ job.pc = "returned" =>
              \A p \in DOMAIN job.symbols :
                 LET held == market.data[Upper(job.symbols[p])].quote
                     hits == {n \in DOMAIN job.result.value :
                                 job.order[n] = p}
                 IN  IF held = {} THEN hits = {}
                     ELSE /\ Cardinality(hits) = 1
                          /\ \A n \in hits : \A q \in held :
                                LET rec == job.result.value[n]
                                IN  /\ rec.symbol = job.symbols[p]
                                    /\ rec.price = q.price
                                    /\ rec.change_pct = q.change_pct

\* a returned list for selected symbols of which one has a quote, one none
C15_Witness ==
    /\ Built
    /\ job.pc = "returned"
    /\ job.result.value # <<>>
    /\ \E p \in DOMAIN job.symbols :
          market.data[Upper(job.symbols[p])].quote = {}
    /\ \E p \in DOMAIN job.symbols :
          market.data[Upper(job.symbols[p])].quote # {}

\* ------------------------------------------------------------ the backtest
Ran == job # <<>> /\ job.call = "run_backtest"

\* the candles the provider holds for the symbol at place p of the request
HistoryOf(p) == market.data[Upper(job.request.symbols[p])].history

\* candle b is the next in time after candle a
NextDay(candles, a, b) ==
    /\ candles[a].timestamp < candles[b].timestamp
    /\ \A c \in DOMAIN candles :
          ~(/\ candles[a].timestamp < candles[c].timestamp
            /\ candles[c].timestamp < candles[b].timestamp)

\* the days for which a history has a daily return: the change from one
\* close to the next is a number unless both are zero
ReturnDays(candles) ==
    {candles[b].timestamp : b \in
        {b \in DOMAIN candles :
            \E a \in DOMAIN candles :
               /\ NextDay(candles, a, b)
               /\ ~(candles[a].close = 0 /\ candles[b].close = 0)}}

EmptyBacktest == [symbols |-> <<>>, equity_curve |-> {}, metrics |-> {}]

\* C18: when no requested symbol has a daily return, as when every history
\* is empty or a single candle, run_backtest returns a result without
\* symbols, equity curve and metrics, and does not fail.
C18_NoReturnsEmptyResult ==
    (/\ Ran
     /\ job.pc \in {"returned", "raised"}
     /\ \A p \in DOMAIN job.request.symbols : ReturnDays(HistoryOf(p)) = {})
    => IF job.error = "none"
       THEN /\ job.pc = "returned"
            /\ job.result = [returned |-> TRUE, value |-> EmptyBacktest]
       ELSE job.pc = "raised"

\* an empty result for two or more symbols whose histories are empty or a
\* single candle, one of them a single candle
C18_Witness ==
    /\ Ran
    /\ job.pc = "returned"
    /\ job.result.value = EmptyBacktest
    /\ Len(job.request.symbols) >= 2
    /\ \A p \in DOMAIN job.request.symbols : Len(HistoryOf(p)) <= 1
    /\ \E p \in DOMAIN job.request.symbols : Len(HistoryOf(p)) = 1

\* the places of the request whose symbol passes the test
KeptPlaces(Test(_)) ==
    SelectSeq([p \in DOMAIN job.request.symbols |-> p], Test)

KeptSymbols(places) ==
    [n \in DOMAIN places |->
        [symbol |-> Upper(job.request.symbols[places[n]])]]

\* the symbols of the per-symbol results
ListedSymbols ==
    [n \in DOMAIN job.result.value.symbols |->
        [symbol |-> job.result.value.symbols[n].symbol]]

\* C20 as stated: the per-symbol results are, in the order of the request,
\* the upper-cased symbols whose history has two or more candles.
C20_TwoCandlesListed ==
    (Ran /\ job.pc = "returned") =>
        ListedSymbols =
            KeptSymbols(KeptPlaces(LAMBDA p : Len(HistoryOf(p)) >= 2))

\* C20: the per-symbol results of run_backtest are, in the order of the
\* request, the upper-cased symbols whose history has a daily return that is
\* a number, and the equity curve has points for the days of their returns
\* only.
C20_SymbolsWithReturnsListed ==
    (Ran /\ job.pc = "returned") =>
        LET places == KeptPlaces(LAMBDA p : ReturnDays(HistoryOf(p)) # {})
        IN  /\ ListedSymbols = KeptSymbols(places)
            /\ job.result.value.equity_curve =
                  UNION {ReturnDays(HistoryOf(places[n])) :
                            n \in DOMAIN places}

\* a result that lists two symbols and leaves out, between them, one with
\* two candles of close zero
C20_Witness ==
    /\ Ran
    /\ job.pc = "returned"
    /\ Len(job.result.value.symbols) = 2
    /\ Len(job.request.symbols) = 3
    /\ job.entry_pos = <<1, 3>>
    /\ Len(HistoryOf(2)) = 2
    /\ ListedSymbols[1] # ListedSymbols[2]

ProviderCalls ==
    {"list_tickers", "get_quote", "get_fundamentals", "get_history"}

\* C19: once a provider call of build_recommendations or run_backtest has
\* raised, the invocation has ended with that error and without a result,
\* however many symbols it had processed.  A result that is returned leaves
\* out no selected symbol but those without quote (build_recommendations)
\* or without daily return (run_backtest).
C19_ProviderErrorIsFatal ==
    job # <<>> =>
        /\ job.error # "none" =>
              /\ job.error \in ProviderCalls
              /\ job.pc = "raised"
              /\ ~job.result.returned
        /\ job.pc = "raised" => job.error # "none"
        /\ job.pc = "returned" =>
              /\ job.error = "none"
              /\ job.result.returned
              /\ \A p \in DOMAIN job.symbols :
                    IF job.call = "build_recommendations"
                    THEN (\A n \in DOMAIN job.order : job.order[n] # p) =>
                            market.data[Upper(job.symbols[p])].quote = {}
                    ELSE (\A n \in DOMAIN job.entry_pos :
                             job.entry_pos[n] # p) =>
                            ReturnDays(HistoryOf(p)) = {}

\* get_history raises after an entry has been built for an earlier symbol
C19_Witness ==
    /\ Built
    /\ job.pc = "raised"
    /\ job.error = "get_history"
    /\ job.entries # <<>>

\* ------------------------------------------------------------- the metrics
\* the history is CandleCount daily candles of positive, strictly
\* increasing close
Rising(candles) ==
    /\ Len(candles) = CandleCount
    /\ candles[1].close > 0
    /\ \A n \in 1..(Len(candles) - 1) :
          /\ candles[n].timestamp < candles[n + 1].timestamp
          /\ candles[n].close < candles[n + 1].close

\* the daily returns of a history given in the order of time
DailyReturns(candles) ==
    [n \in 1..(Len(candles) - 1) |->
        ((candles[n + 1].close - candles[n].close) * ReturnUnit)
            \div candles[n].close]

\* the sum of numbers lo..hi of a sequence
RECURSIVE Total(_, _, _)
Total(numbers, lo, hi) ==
    IF lo > hi THEN 0
    ELSE IF lo = hi THEN numbers[lo]
    ELSE LET mid == (lo + hi) \div 2
         IN  Total(numbers, lo, mid) + Total(numbers, mid + 1, hi)

\* the mean daily return is above the daily risk-free rate 0.005 / 252 and
\* the returns are not all the same
BeatsRiskFree(candles) ==
    LET r == DailyReturns(candles)
    IN  /\ TRADING_DAYS * Total(r, 1, Len(r)) > Len(r) * RISK_FREE_RATE
        /\ \E n \in DOMAIN r : r[n] # r[1]

\* the result listed for the symbol at place p of the request
ResultOf(p) ==
    {job.result.value.symbols[n] :
        n \in {k \in DOMAIN job.entry_pos : job.entry_pos[k] = p}}

PortfolioCagr ==
    {item.value : item \in {x \in job.result.value.metrics :
                               x.key = "cagr"}}

\* C21 as stated: every symbol with a history of 200 daily candles of
\* strictly increasing close has CAGR > 0, Sharpe > 0 and max drawdown 0 in
\* the result, and the metrics of the portfolio of such symbols have a cagr
\* > 0.
C21_RisingMeansPositiveSharpe ==
    (Ran /\ job.pc = "returned") =>
        /\ \A p \in DOMAIN job.request.symbols :
              Rising(HistoryOf(p)) =>
                 /\ ResultOf(p) # {}
                 /\ \A r \in ResultOf(p) :
                       r.cagr = 1 /\ r.sharpe = 1 /\ r.max_drawdown = 0
        /\ (\A p \in DOMAIN job.request.symbols : Rising(HistoryOf(p))) =>
              PortfolioCagr = {1}

\* C21: every symbol with a history of 200 daily candles of positive,
\* strictly increasing close has CAGR > 0 and max drawdown 0 in the result;
\* its Sharpe ratio is > 0 exactly if its mean daily return is above
\* 0.005 / 252 and its returns differ, and is <= 0 otherwise.  The metrics
\* of the portfolio of such symbols have a cagr > 0.
C21_RisingHistoryMetrics ==
    (Ran /\ job.pc = "returned") =>
        /\ \A p \in DOMAIN job.request.symbols :
              Rising(HistoryOf(p)) =>
                 /\ ResultOf(p) # {}
                 /\ \A r \in ResultOf(p) :
                       /\ r.cagr = 1
                       /\ r.max_drawdown = 0
                       /\ IF BeatsRiskFree(HistoryOf(p)) THEN r.sharpe = 1
                          ELSE r.sharpe \in {0, -1}
        /\ (\A p \in DOMAIN job.request.symbols : Rising(HistoryOf(p))) =>
              PortfolioCagr = {1}

\* a result for three symbols with rising histories, of which one has a
\* Sharpe ratio > 0 and one has not
C21_Witness ==
    /\ Ran
    /\ job.pc = "returned"
    /\ Len(job.request.symbols) = 3
    /\ \A p \in DOMAIN job.request.symbols : Rising(HistoryOf(p))
    /\ \E p \in DOMAIN job.request.symbols : \E r \in ResultOf(p) :
          r.sharpe = 1
    /\ \E p \in DOMAIN job.request.symbols : \E r \in ResultOf(p) :
          r.sharpe = -1
    /\ PortfolioCagr = {1}

\* -------------------------------------------------------------- the alerts
\* C22 as stated: the application answers a POST /v1/alerts with 201 and an
\* active alert, a following GET /v1/alerts with 200 and a list that holds
\* the alerts created, and a PATCH and a DELETE on the id of an alert in
\* store with 200 and 204.
C22_ApplicationServesAlerts ==
    (api # <<>> /\ api.last.via = "application") =>
        LET request == api.last.request
            answer == api.last.answer
            stored == PlacesOf(api.last.before, request.alert_id) # {}
        IN  /\ request.method = "POST" =>
                  /\ answer.status_code = HTTP_201_CREATED
                  /\ answer.body.active
            /\ request.method = "GET" =>
                  /\ answer.status_code = HTTP_200_OK
                  /\ \A n \in DOMAIN api.last.before :
                        \E k \in DOMAIN answer.body :
                           answer.body[k] = api.last.before[n]
            /\ (request.method = "PATCH" /\ stored) =>
                  answer.status_code = HTTP_200_OK
            /\ (request.method = "DELETE" /\ stored) =>
                  answer.status_code = HTTP_204_NO_CONTENT

\* ------------------------------------------------- the fundamentals score
\* what a rule adds: d where its input is present and its condition holds
Delta(input, Condition(_), d) ==
    IF input # {} /\ Condition(CHOOSE x \in input : TRUE) THEN d * Point
    ELSE 0

\* the sum of the deltas of the rules of fundamentals.py:15-47
DeltaSum(f) ==
    Delta(f.pe, LAMBDA x : x < 15 * Point, 10)
    + Delta(f.pe, LAMBDA x : x >= 15 * Point /\ x > 30 * Point, -5)
    + Delta(f.ps, LAMBDA x : x < 3 * Point, 5)
    + Delta(f.roe, LAMBDA x : x > 15 * Point, 10)
    + Delta(f.roe, LAMBDA x : x <= 15 * Point /\ x < 5 * Point, -5)
    + Delta(f.growth_5y, LAMBDA x : x > 10 * Point, 10)
    + Delta(f.profit_margin, LAMBDA x : x > 15 * Point, 5)
    + Delta(f.debt_to_equity, LAMBDA x : x > 1 * Point, -10)
    + Delta(f.dividend_yield, LAMBDA x : x >= 3 * Point, 5)

\* the inputs of the rules that are present
PresentInputs(f) ==
    {name \in {"pe", "ps", "roe", "growth_5y", "profit_margin",
               "debt_to_equity", "dividend_yield"} : f[name] # {}}

\* C23: with a record present score_fundamentals returns 50 plus the deltas
\* of the rules whose input is present and whose condition holds, kept
\* within [0, 100]; a record the present inputs of which meet no condition,
\* and so one with no input present, scores 50 with no factor; with no
\* record the score is 50 with exactly one factor.
C23_FundamentalsScore ==
    (scoring # <<>> /\ scoring.call = "compute_score" /\ scoring.done) =>
        LET fundamentals == scoring.entry.fundamentals
            got == scoring.result.fundamental
        IN  IF fundamentals = {}
            THEN got.score = 50 * Point /\ Len(got.factors) = 1
            ELSE LET f == CHOOSE x \in fundamentals : TRUE
                     sum == 50 * Point + DeltaSum(f)
                 IN  /\ got.score = IF sum < 0 THEN 0
                                    ELSE IF sum > 100 * Point THEN 100 * Point
                                    ELSE sum
                     /\ PresentInputs(f) = {} =>
                           got.score = 50 * Point /\ got.factors = <<>>
                     /\ Len(got.factors) <= Cardinality(PresentInputs(f))

\* a record with P/S, growth, margin and dividend absent, P/E above 30, ROE
\* above 15 and debt above 1 scores 50 - 5 + 10 - 10
C23_Witness ==
    /\ scoring # <<>> /\ scoring.call = "compute_score" /\ scoring.done
    /\ scoring.entry.fundamentals # {}
    /\ LET f == CHOOSE x \in scoring.entry.fundamentals : TRUE
       IN  /\ PresentInputs(f) = {"pe", "roe", "debt_to_equity"}
           /\ f.pe = {40 * Point}
           /\ f.roe = {20 * Point}
    /\ scoring.result.fundamental.score = 45 * Point
    /\ Len(scoring.result.fundamental.factors) = 2

\* ------------------------------------------------------------ the backoff
\* caller c dispatches a further attempt of its running _fetch_json
Retries(c) ==
    /\ fr[c].dispatches >= 1
    /\ fr'[c].dispatches = fr[c].dispatches + 1

\* the last attempt of c failed with a connection error, a time-out or a 5xx
Failed(c) == fr[c].last_resp \in {"RequestError", "5xx"}

\* C24: within one _fetch_json, when attempt k fails with a connection or
\* time-out error or a 5xx the adapter sleeps 0.2 * k seconds; while that
\* sleep lasts it does nothing else, and attempt k + 1 is dispatched only
\* when the sleep is over and the wait of the rate limiter has completed.
C24_BackoffBeforeRetry ==
    [][\A c \in Callers :
          /\ (fr[c].pc = "http" /\ fr'[c].pc \in {"backoff", "backoff_5xx"}
                  /\ fr'[c].last_resp \in {"RequestError", "5xx"}) =>
                /\ fr[c].dispatches = fr[c].attempt
                /\ fr'[c].sleep_for = BACKOFF_STEP * fr[c].attempt
                /\ fr'[c].wake_in = fr'[c].sleep_for
                /\ fr'[c].dispatches = fr[c].dispatches
          /\ (Failed(c) /\ fr[c].pc \in {"backoff", "backoff_5xx"}
                  /\ fr[c].wake_in > 0) =>
                /\ fr'[c].pc = fr[c].pc
                /\ fr'[c].dispatches = fr[c].dispatches
                /\ fr'[c].wake_in <= fr[c].wake_in
          /\ (Failed(c) /\ Retries(c)) =>
                /\ fr[c].pc \in {"backoff", "backoff_5xx", "rl_lock",
                                 "rl_sleep"}
                /\ fr[c].wake_in = 0
                /\ fr'[c].attempt = fr'[c].dispatches
                /\ rate_limiter.since_last_call >= rate_limiter.min_interval
                /\ rate_limiter'.since_last_call = 0
                /\ fr'[c].pc = "http"]_vars

\* the third attempt is on its way after a connection error and a 5xx
C24_Witness ==
    /\ fr["c1"].pc = "http"
    /\ fr["c1"].dispatches = 3
    /\ fr["c1"].last_resp = "5xx"
    /\ fr["c1"].last_error = "ServerError"
    /\ rate_limiter.min_interval = DEFAULT_RATE_LIMIT_INTERVAL

\* ------------------------------------------------- one request per window
\* C25 as stated: a caller never dispatches a snapshot request for a symbol
\* while the quote cache holds an entry for it that has not expired, so
\* that at most one request per symbol goes upstream in a cache window,
\* also when get_quote calls for the symbol run at the same time.
C25_NoDispatchWhileFresh ==
    [][\A c \in Callers :
          (fr[c].pc # "http" /\ fr'[c].pc = "http"
              /\ fr'[c].op = "get_quote") =>
             CacheGetValue(quote_cache, fr'[c].symbol) = {}]_vars

\* ------------------------------------------------------- the failed listing
\* the items of a TTLCache without their expiry
Items(store) == {[key |-> x.key, value |-> x.value] : x \in store}

\* the tickers of the pages a call has received
RECURSIVE TickersOf(_)
TickersOf(pages) ==
    IF pages = <<>> THEN <<>>
    ELSE TickersOf(SubSeq(pages, 1, Len(pages) - 1))
             \o [i \in DOMAIN pages[Len(pages)] |->
                    MakeTicker(pages[Len(pages)][i])]

\* list_tickers of caller c has raised
ListingFailed(c) ==
    fr[c].op = "list_tickers" /\ fr[c].pc = "done" /\ fr[c].outcome = "raised"

\* C26 as stated: when the fetch of a page fails the call raises and the
\* universe cache is exactly as it was before the call; no partial list is
\* cached or returned, and a later call starts from the first page.
C26_FailureLeavesCacheAsBefore ==
    /\ ListingFailed("c1") =>
          /\ Items(universe_cache) = Items(fr["c1"].universe)
          /\ fr["c1"].list = <<>>
          /\ fr["c1"].writes = 0
    /\ fr["c1"].op = "list_tickers" =>
          fr["c1"].tickers = TickersOf(fr["c1"].pages)

\* C26: when the fetch of a page fails the call raises and has written
\* nothing to the universe cache: the cache holds no entry, the one change
\* being that an expired entry the call found has been removed.  No partial
\* list is cached or returned; every call collects the tickers of its own
\* pages only, from the first page on, and what a call returns after
\* fetching is the list of all its pages.
C26_FailureWritesNothing ==
    /\ ListingFailed("c1") =>
          /\ universe_cache = {}
          /\ \A x \in fr["c1"].universe : x.expires_in < 0
          /\ fr["c1"].list = <<>>
          /\ fr["c1"].writes = 0
    /\ fr["c1"].op = "list_tickers" =>
          /\ fr["c1"].tickers = TickersOf(fr["c1"].pages)
          /\ Len(fr["c1"].pages) <= fr["c1"].total_dispatches
          /\ (fr["c1"].outcome = "returned" /\ ~fr["c1"].hit) =>
                /\ fr["c1"].list = fr["c1"].tickers
                /\ Items(universe_cache) =
                      {[key |-> "universe", value |-> fr["c1"].list]}

\* the second page of a call that found an expired entry has failed
C26_Witness ==
    /\ ListingFailed("c1")
    /\ Len(fr["c1"].pages) = 1
    /\ fr["c1"].tickers # <<>>
    /\ fr["c1"].universe # {}
    /\ universe_cache = {}

\* ------------------------------------------------------- what is cached
\* the call in frame f has ended without a value: it raised or returned None
WithoutValue(f) ==
    /\ f.pc = "done"
    /\ \/ f.outcome = "raised"
       \/ f.outcome = "returned" /\ f.op = "get_quote" /\ f.quote = {}
       \/ f.outcome = "returned" /\ f.op = "get_fundamentals"
              /\ f.fundamentals = {}

\* on its way upstream: dispatched, or waiting for the rate limiter
GoingUpstream(f) == ~f.hit /\ f.pc \in {"http", "rl_sleep"}

CachesUnchanged ==
    /\ quote_cache' = quote_cache
    /\ fundamentals_cache' = fundamentals_cache
    /\ universe_cache' = universe_cache

\* C27: the quote and the fundamentals cache hold only values that were
\* built, each under the upper-cased symbol of the call that built it.  The
\* step that ends a call by raising or by returning None writes no cache,
\* and the caller's next call of that operation for the symbol goes
\* upstream.  get_history goes upstream on every call and neither its start
\* nor its end touches a cache.
C27_OnlyBuiltValuesCached ==
    [][LET f == fr["c1"]
           g == fr'["c1"]
           starts == calls_left' = calls_left - 1
           ends == f.pc # "done" /\ g.pc = "done"
       IN  /\ (ends /\ WithoutValue(g)) =>
                 /\ quote_cache' = quote_cache
                 /\ fundamentals_cache' = fundamentals_cache
                 /\ g.writes = 0
           /\ (starts /\ WithoutValue(f) /\ g.op = f.op
                  /\ g.symbol = f.symbol) => GoingUpstream(g)
           /\ (starts /\ g.op = "get_history") =>
                 GoingUpstream(g) /\ CachesUnchanged
           /\ (ends /\ f.op = "get_history") =>
                 CachesUnchanged /\ g.writes = 0
           /\ \A x \in quote_cache' :
                 /\ x.key = Upper(x.key)
                 /\ x.value.symbol = x.key
                 /\ x.value.price # 0
                 /\ (ends /\ quote_cache' # quote_cache) =>
                       x.key = Upper(f.arg) /\ g.quote = {x.value}
           /\ \A x \in fundamentals_cache' :
                 /\ x.key = Upper(x.key)
                 /\ x.value \in {MakeFundamentals(r) : r \in FinancialRecords}
                 /\ (ends /\ fundamentals_cache' # fundamentals_cache) =>
                       x.key = Upper(f.arg) /\ g.fundamentals = {x.value}
      ]_vars

\* get_fundamentals has asked the upstream, found no results and returned
\* None without an entry in its cache, while a quote is cached
C27_Witness ==
    /\ fr["c1"].op = "get_fundamentals"
    /\ fr["c1"].arg = <<"a", "b">>
    /\ WithoutValue(fr["c1"])
    /\ fr["c1"].outcome = "returned"
    /\ fr["c1"].total_dispatches = 1
    /\ fundamentals_cache = {}
    /\ quote_cache # {}

\* ---------------------------------------------------- a wait per request
\* caller c hands a request to the client in this step
Dispatches(c) ==
    /\ fr'[c].pc = "http"
    /\ fr[c].pc # "http" \/ fr'[c].total_dispatches # fr[c].total_dispatches

\* C28: every request handed to the client, be it a first attempt, a retry
\* or a further page, comes at the end of a RateLimiter.wait() of the caller
\* that completes in that step: the interval has passed, _last_call is set
\* and the lock is free; _last_call is set by no other step.  A call
\* answered from the cache neither waits nor changes the limiter.
C28_WaitBeforeEveryRequest ==
    [][\A c \in Callers :
          /\ Dispatches(c) =>
                /\ rate_limiter.lock \in {"free", c}
                /\ rate_limiter.since_last_call >= rate_limiter.min_interval
                /\ rate_limiter'.since_last_call = 0
                /\ rate_limiter'.lock = "free"
                /\ fr'[c].total_dispatches =
                      IF fr[c].pc \in {"idle", "done"} THEN 1
                      ELSE fr[c].total_dispatches + 1
                /\ sent'.since = 0
          /\ (rate_limiter'.since_last_call < rate_limiter.since_last_call) =>
                \E d \in Callers : Dispatches(d)
          /\ (calls_left' < calls_left /\ fr'[c] # fr[c] /\ fr'[c].hit) =>
                /\ rate_limiter' = rate_limiter
                /\ sent' = sent
                /\ fr'[c].pc = "done"
                /\ fr'[c].total_dispatches = 0]_vars

\* list_tickers is answered from the cache at the instant of the second
\* of two page requests: the limiter is as that request left it
C28_Witness ==
    /\ fr["c1"].op = "list_tickers"
    /\ fr["c1"].pc = "done"
    /\ fr["c1"].hit
    /\ fr["c1"].total_dispatches = 0
    /\ sent.n = 2
    /\ sent.gap >= DEFAULT_RATE_LIMIT_INTERVAL
    /\ rate_limiter.since_last_call = 0

\* ------------------------------------------------------- the fetch ends
\* the caller is inside a _fetch_json
Fetching(c) == fr[c].pc \in {"http", "rl_sleep", "rl_lock", "backoff",
                             "backoff_5xx"}

C30_ListingEnds ==
    fr["c1"].op = "list_tickers" ~> fr["c1"].pc = "done"

====
